---- MODULE Spec2Model ----
(***************************************************************************)
(* A model of the event-driven parser runtime of module_template.c: the    *)
(* frame stack (push_callbacks / top_callbacks / pop_callbacks), the expat *)
(* handlers (start_element / end_element / character_data), the generated *)
(* per-type handlers (node_class_start / attr / attr_end / child /         *)
(* finish), the leaf parsers and the driver (parse).                       *)
(*                                                                         *)
(* The C file is a template that is instantiated per schema; the model     *)
(* instantiates it on a small schema (Schema below).  The tokenizer        *)
(* (expat) is an external collaborator: the model delivers its callbacks   *)
(* nondeterministically, well nested, and includes the callbacks expat     *)
(* documents as still following XML_StopParser.                            *)
(***************************************************************************)
EXTENDS Integers, Sequences, FiniteSets, TLC

(***************************************************************************)
(* Program constants                                                       *)
(***************************************************************************)
STACK_BLOCK_SIZE == 100
NODE_LIST_INITIAL_CAPACITY == 5
EXPAT_BUFFER_SIZE == 4096
EXPAT_CHUNK_SIZE == 1048576

(***************************************************************************)
(* Bounds of the model                                                     *)
(***************************************************************************)
MaxDepth == 3        \* open XML elements at any time
MaxEvents == 5       \* tokenizer callbacks per parse
MaxAttrs == 3        \* attributes on one start tag (attribute specification)
MaxStackOver == 2    \* frames pushed beyond one full block (frame-stack specification)
MaxStackVary == 2    \* depths below the block boundary at which the pushed frame varies
MaxListEvents == 8   \* tokenizer callbacks per parse (repeated-child specification)
MaxContentEvents == 8  \* tokenizer callbacks per parse (tuple-content specification)
MaxTextEvents == 6   \* tokenizer callbacks per parse (text-content specification)
MaxIntEvents == 4    \* tokenizer callbacks per parse (integer specification)
MaxRun == 3          \* characters in a run of character data that is split into pieces
MaxDeepEvents == 3   \* tokenizer callbacks after the frame stack has filled its first block
MaxKeyLen == 4       \* bytes in a key handed to the name lookup
MaxKw == 2           \* keyword arguments in one call of Node_<type>.__new__
MaxExtraArgs == 1    \* positional arguments beyond the number the type takes
MaxListLen == 3      \* elements of the frozen list that is iterated
MaxCursors == 3      \* iterators requested from the list
MaxExtraNext == 2    \* calls of next on an iterator after it was exhausted
MaxGrowEvents == 14  \* tokenizer callbacks per parse (list-growth specification)
MaxNestEvents == 8   \* tokenizer callbacks per parse (nested-record specification)
MaxGridEvents == 8   \* tokenizer callbacks per parse (record-row specification)
MaxRowEvents == 5    \* tokenizer callbacks per parse (row-start specification)
MaxChunks == 2       \* whole chunks in the input of parse_str
MaxLenVary == 1      \* bytes the input length lies off a multiple of the chunk size
MaxReads == 3        \* non-empty reads the source of parse_file can return

(***************************************************************************)
(* Values (Python object pointers as the parser sees them): a pair         *)
(* <<tag, payload>>; NULL is the C null pointer, Ref(i) points to the heap *)
(* object i, text is a sequence of one-character strings.                  *)
(***************************************************************************)
NULL == <<"null", 0>>
Py_None == <<"none", 0>>
Py_True == <<"bool", 1>>
Py_False == <<"bool", 0>>
Str(chars) == <<"str", chars>>
Ref(i) == <<"ref", i>>
IsRef(v) == v[1] = "ref"
IsStr(v) == v[1] = "str"

(***************************************************************************)
(* Slot addresses (pointers to a value pointer): &r_obj,                   *)
(* &node->fields[i], &list->content[i], or the null pointer.               *)
(***************************************************************************)
RootSlot == <<"root", 0, 0>>
NilSlot == <<"nil", 0, 0>>
FieldSlot(obj, i) == <<"fields", obj, i>>
ContentSlot(obj, i) == <<"content", obj, i>>

(***************************************************************************)
(* The compiled schema the template is instantiated on.                    *)
(*   doc  (root)  DocType: attributes id (required), lang (optional);      *)
(*                 children title (singular, optional, string leaf),       *)
(*                 sec (repeated, SecType); unknown attributes: "error"    *)
(*   sec  (root)  SecType: attributes flag (optional bool), id (required); *)
(*                 children name (singular, required, string leaf),        *)
(*                 sec (repeated, SecType); unknown attributes: "ignore"   *)
(*   tab  (root)  TabType: content is rows of the tuple (k, v, w), string  *)
(*                 leaves                                                  *)
(*   para (root)  ParaType: attribute n (optional integer); content is a   *)
(*                 union list that allows text, of sp (the                 *)
(*                 character-from-integer leaf, which appends to a         *)
(*                 preceding string) and b (string leaf)                   *)
(*   grid (root)  GridType: content is rows of the tuple (k, sec), k a     *)
(*                 string leaf and sec a SecType                           *)
(***************************************************************************)
element_names ==
  <<"doc", "sec", "title", "name", "tab", "k", "v", "w", "para", "sp", "b", "grid">>
attribute_names == <<"id", "lang", "flag", "n">>
ELEMENT_OTHER == "ELEMENT_OTHER"
ATTRIBUTE_OTHER == "ATTRIBUTE_OTHER"

Schema ==
  [ DocType |->
      [ attrs |-> << [name |-> "id", field |-> 1, type |-> "string", optional |-> FALSE],
                     [name |-> "lang", field |-> 2, type |-> "string", optional |-> TRUE] >>,
        children |-> << [name |-> "title", field |-> 3, is_list |-> FALSE, min_items |-> 0, type |-> "string"],
                        [name |-> "sec", field |-> 4, is_list |-> TRUE, min_items |-> 0, type |-> "SecType"],
                        [name |-> "name", field |-> 5, is_list |-> TRUE, min_items |-> 1, type |-> "string"] >>,
        content |-> <<>>,
        content_tuple |-> FALSE,
        content_union |-> FALSE,
        allow_text |-> FALSE,
        other_attr |-> "error",
        field_count |-> 5 ],
    SecType |->
      [ attrs |-> << [name |-> "flag", field |-> 1, type |-> "DoxBool", optional |-> TRUE],
                     [name |-> "id", field |-> 2, type |-> "string", optional |-> FALSE] >>,
        children |-> << [name |-> "name", field |-> 3, is_list |-> FALSE, min_items |-> 1, type |-> "string"],
                        [name |-> "sec", field |-> 4, is_list |-> TRUE, min_items |-> 0, type |-> "SecType"] >>,
        content |-> <<>>,
        content_tuple |-> FALSE,
        content_union |-> FALSE,
        allow_text |-> FALSE,
        other_attr |-> "ignore",
        field_count |-> 4 ],
    TabType |->
      [ attrs |-> <<>>,
        children |-> <<>>,
        content |-> << [name |-> "k", type |-> "string"],
                       [name |-> "v", type |-> "string"],
                       [name |-> "w", type |-> "string"] >>,
        content_tuple |-> TRUE,
        content_union |-> FALSE,
        allow_text |-> FALSE,
        other_attr |-> "ignore",
        field_count |-> 0 ],
    ParaType |->
      [ attrs |-> << [name |-> "n", field |-> 1, type |-> "integer", optional |-> TRUE] >>,
        children |-> <<>>,
        content |-> << [name |-> "sp", type |-> "spType", appends_str |-> TRUE],
                       [name |-> "b", type |-> "string", appends_str |-> FALSE] >>,
        content_tuple |-> FALSE,
        content_union |-> TRUE,
        allow_text |-> TRUE,
        other_attr |-> "ignore",
        field_count |-> 1 ],
    GridType |->
      [ attrs |-> <<>>,
        children |-> <<>>,
        content |-> << [name |-> "k", type |-> "string"],
                       [name |-> "sec", type |-> "SecType"] >>,
        content_tuple |-> TRUE,
        content_union |-> FALSE,
        allow_text |-> FALSE,
        other_attr |-> "ignore",
        field_count |-> 0 ] ]

root_elements ==
  [doc |-> "DocType", sec |-> "SecType", tab |-> "TabType", para |-> "ParaType",
   grid |-> "GridType"]
builtin_t == {"string", "empty", "spType"}

has_attributes(type) == Len(Schema[type].attrs) > 0
has_children(type) == Len(Schema[type].children) > 0
has_children_or_content(type) == has_children(type) \/ Len(Schema[type].content) > 0
has_children_or_tuple_content(type) ==
  has_children(type) \/ (Schema[type].content_tuple /\ Len(Schema[type].content) > 0)

VARIABLES
  block,         \* parse_state.block: index of the current block in the chain
  block_used,    \* parse_state.block_used
  nblocks,       \* number of blocks allocated (linked through next)
  stackmem,      \* the blocks' frame arrays: stackmem[b][i] is block b's stack[i-1]
  shadow,        \* frame-stack specification: the abstract stack, bottom first
  ignore_level,  \* parse_state.ignore_level
  heap,          \* the container objects created so far
  r_obj,         \* parse(): the root destination
  pyerr,         \* the pending Python exception, or NoError
  warnings,      \* warnings emitted through the non-fatal channel
  escalate,      \* the warnings filter turns ParseWarning into an exception
  stopped,       \* XML_StopParser has been called
  pending,       \* callback the tokenizer still owes: "none", "end", "text"
  open,          \* tokenizer: the open elements, outermost first
  nevents,       \* callbacks delivered so far
  pc,            \* "parsing", "done", "crashed"; "stack" in the frame-stack specification
  result,        \* what parse() returned
  last,          \* the last callback delivered and what it was delivered to
  io             \* parse_str / parse_file: the input, the feed calls and the reads so far

vars == <<block, block_used, nblocks, stackmem, shadow, ignore_level, heap, r_obj, pyerr,
          warnings, escalate, stopped, pending, open, nevents, pc, result, last, io>>

NoError == [cls |-> "none", msg |-> <<>>, lineno |-> "none"]
NullCall == [fn |-> "NULL", type |-> ""]
UninitCall == [fn |-> "uninitialized", type |-> ""]
Call(fn, type) == [fn |-> fn, type |-> type]

(***************************************************************************)
(* The program state the handlers work on, as one record, so that a        *)
(* handler is an operator from state to state; ret is the handler's        *)
(* return value.                                                           *)
(***************************************************************************)
Cur ==
  [ block |-> block, block_used |-> block_used, nblocks |-> nblocks,
    stackmem |-> stackmem, ignore_level |-> ignore_level, heap |-> heap,
    r_obj |-> r_obj, pyerr |-> pyerr, warnings |-> warnings,
    escalate |-> escalate, stopped |-> stopped, crashed |-> FALSE,
    malloc_fails |-> FALSE, garbage_is_null |-> TRUE, called |-> "none",
    released |-> FALSE, einval |-> FALSE, value |-> 0, nomem |-> FALSE, ret |-> 0 ]

Ret(s, r) == [s EXCEPT !.ret = r]

(***************************************************************************)
(* The frame stack.  The blocks form a chain in allocation order: block b  *)
(* has prev b-1 (none for b = 1) and next b+1 (none for b = nblocks).      *)
(* Popped frames stay in memory, as in C.                                  *)
(***************************************************************************)
Frame(value, cs, t, f) == [value |-> value, cs_call |-> cs, t_call |-> t, f_call |-> f]

\* push_callbacks up to its return: ret = 1 for a frame pointer, 0 for NULL; nomem
\* notes that PyMem_Malloc returned NULL
push_callbacks(s) ==
  IF s.block_used = STACK_BLOCK_SIZE
  THEN IF s.block = s.nblocks
       THEN IF s.malloc_fails
            THEN [s EXCEPT !.nomem = TRUE, !.ret = 0]
            ELSE [s EXCEPT !.nblocks = @ + 1, !.stackmem = Append(@, <<>>),
                           !.block = @ + 1, !.block_used = 1, !.ret = 1]
       ELSE [s EXCEPT !.block = @ + 1, !.block_used = 1, !.ret = 1]
  ELSE [s EXCEPT !.block_used = @ + 1, !.ret = 1]

\* the caller's stores through the pointer push_callbacks returned
SetFrame(s, frame) ==
  [s EXCEPT !.stackmem[s.block] =
     IF s.block_used > Len(@) THEN Append(@, frame) ELSE [@ EXCEPT ![s.block_used] = frame]]

\* assert(state->block_used) of top_callbacks and pop_callbacks
StackNonEmpty(s) == s.block_used > 0

\* top_callbacks that looks through the frame of a leaf to the frame below it
top_callbacks_below_leaf(s) ==
  IF s.block_used > 1 /\ s.stackmem[s.block][s.block_used].cs_call.fn = "NULL"
  THEN s.stackmem[s.block][s.block_used - 1]
  ELSE s.stackmem[s.block][s.block_used]

top_callbacks(s) == s.stackmem[s.block][s.block_used]

\* pop_callbacks without the step back to the previous block
pop_callbacks_within_block(s) == [s EXCEPT !.block_used = @ - 1]

pop_callbacks(s) ==
  IF s.block_used - 1 = 0 /\ s.block > 1
  THEN [s EXCEPT !.block = @ - 1, !.block_used = STACK_BLOCK_SIZE]
  ELSE [s EXCEPT !.block_used = @ - 1]

\* number of frames on the stack
Depth(s) == (s.block - 1) * STACK_BLOCK_SIZE + s.block_used

(***************************************************************************)
(* The heap of container objects.  An object has a class, the schema type  *)
(* (or the union tag), its fields and, for lists, content and capacity.    *)
(***************************************************************************)
Obj(cls, type, fields) ==
  [cls |-> cls, type |-> type, fields |-> fields, content |-> <<>>, capacity |-> 0]

Nulls(n) == [i \in 1..n |-> NULL]

\* PyObject_GC_New and the init_ function: the new object's index is s.ret
Alloc(s, obj) == [s EXCEPT !.heap = Append(@, obj), !.ret = Len(s.heap) + 1]

create_tagged_value(s) == Alloc(s, Obj("tagged_value", "", Nulls(2)))
create_frozen_list(s) == Alloc(s, Obj("frozen_list", "", <<>>))
create_node_tagonly_common(s, type, fields) == Alloc(s, Obj("node", type, Nulls(fields)))
\* a node_list_common is a frozen_list followed by the fields
create_node_list_common(s, type, fields) == Alloc(s, Obj("node", type, Nulls(fields)))
create_tuple_item(s, type, fields) == Alloc(s, Obj("tuple_item", type, Nulls(fields)))

Deref(s, slot) ==
  CASE slot[1] = "root" -> s.r_obj
    [] slot[1] = "fields" -> s.heap[slot[2]].fields[slot[3]]
    [] slot[1] = "content" -> s.heap[slot[2]].content[slot[3]]

Store(s, slot, v) ==
  CASE slot[1] = "root" -> [s EXCEPT !.r_obj = v]
    [] slot[1] = "fields" -> [s EXCEPT !.heap[slot[2]].fields[slot[3]] = v]
    [] slot[1] = "content" -> [s EXCEPT !.heap[slot[2]].content[slot[3]] = v]

\* frozen_list_push_object that inserts at the front of the list
frozen_list_push_object_front(s, fl, o, initial_cap) ==
  [s EXCEPT !.heap[fl].content = <<o>> \o @, !.ret = 0]

\* frozen_list_push_object: ret 0; the new slot is the last of content
frozen_list_push_object(s, fl, o, initial_cap) ==
  LET l == s.heap[fl]
      cap == IF Len(l.content) = l.capacity
             THEN (IF l.capacity = 0 THEN initial_cap ELSE l.capacity * 2)
             ELSE l.capacity
  IN [s EXCEPT !.heap[fl].capacity = cap, !.heap[fl].content = Append(@, o), !.ret = 0]

\* frozen_list_push_tagged_value: a new tagged value <<name, NULL>> at the end of the
\* list; ret is the tagged value, whose second field is the address returned
frozen_list_push_tagged_value(s, name, fl, initial_cap) ==
  LET pushed(s1, tv) ==
        Ret(Store(frozen_list_push_object(s1, fl, Ref(tv), initial_cap),
                  FieldSlot(tv, 1), <<"tag", name>>), tv)
      created(s1) == pushed(s1, s1.ret)
  IN created(create_tagged_value(s))

(***************************************************************************)
(* Errors and warnings                                                     *)
(***************************************************************************)
ParseError(msg, lineno) == [cls |-> "ParseError", msg |-> msg, lineno |-> lineno]

\* XML_ErrorString(XML_GetErrorCode(parser)) while no tokenizer error is recorded: NULL,
\* which the "s" format turns into None
XML_ErrorString_NONE == <<"None">>
XML_ErrorString_ABORTED == <<"parsing aborted">>
XML_ErrorString_SYNTAX == <<"syntax error">>

set_parse_error(s, msg) ==
  [s EXCEPT !.pyerr = ParseError(XML_ErrorString_NONE, "current")]

set_parse_error_format(s, msg) ==
  [s EXCEPT !.pyerr = ParseError(msg, "current")]

\* PyErr_WarnFormat(ParseWarning, ...): 0 when the warning is reported, -1 with the
\* warning raised as an exception when the filter escalates it
SET_PARSE_WARNING_FMT(s, msg) ==
  IF s.escalate
  THEN [s EXCEPT !.pyerr = [cls |-> "ParseWarning", msg |-> msg, lineno |-> "current"],
                 !.ret = -1]
  ELSE [s EXCEPT !.warnings = Append(@, msg), !.ret = 0]

set_parse_warning(s, msg) == SET_PARSE_WARNING_FMT(s, msg)

warn_unexpected_attribute(s, name) == SET_PARSE_WARNING_FMT(s, <<"unexpected attribute", name>>)
warn_duplicate_attribute(s, name) == SET_PARSE_WARNING_FMT(s, <<"duplicate attribute", name>>)
raise_missing_attribute_error(s, name) == set_parse_error_format(s, <<"missing attribute", name>>)
raise_duplicate_element_error(s, name) ==
  set_parse_error_format(s, <<"cannot appear more than once in this context", name>>)
raise_missing_element_error(s, name) == set_parse_error_format(s, <<"missing child", name>>)
raise_empty_list_element_error(s, name) ==
  set_parse_error_format(s, <<"at least one child is required", name>>)

XML_StopParser(s) == [s EXCEPT !.stopped = TRUE]

(***************************************************************************)
(* Tuple rows in a content list.  tuple_i counts from 0 as in C;           *)
(* field_names is the type's content.  The pointer returned by             *)
(* frozen_list_push_tuple_item is the address of field tuple_i of the last *)
(* row; ret is 1 for a pointer and 0 for NULL.                             *)
(***************************************************************************)
LastRow(s, fl) == s.heap[fl].content[Len(s.heap[fl].content)][2]

\* frozen_list_push_tuple_item that accepts a later field whenever a row exists
frozen_list_push_tuple_item_any_order(s, tuple_i, tuple_size, field_names, class_index, fl, initial_cap) ==
  LET size == Len(s.heap[fl].content)
      created(s1) == Ret(frozen_list_push_object(s1, fl, Ref(s1.ret), initial_cap), 1)
  IN IF tuple_i = 0
     THEN IF size # 0 /\ s.heap[LastRow(s, fl)].fields[tuple_size] = NULL
          THEN Ret(set_parse_error_format(s,
                     <<"can only come after or be the first in its group",
                       field_names[1].name, field_names[tuple_size].name>>), 0)
          ELSE created(create_tuple_item(s, class_index, tuple_size))
     ELSE IF size = 0
          THEN Ret(set_parse_error_format(s,
                     <<"can only come after",
                       field_names[tuple_i + 1].name, field_names[tuple_i].name>>), 0)
          ELSE Ret(s, 1)

frozen_list_push_tuple_item(s, tuple_i, tuple_size, field_names, class_index, fl, initial_cap) ==
  LET size == Len(s.heap[fl].content)
      created(s1) == Ret(frozen_list_push_object(s1, fl, Ref(s1.ret), initial_cap), 1)
  IN IF tuple_i = 0
     THEN IF size # 0 /\ s.heap[LastRow(s, fl)].fields[tuple_size] = NULL
          THEN Ret(set_parse_error_format(s,
                     <<"can only come after or be the first in its group",
                       field_names[1].name, field_names[tuple_size].name>>), 0)
          ELSE created(create_tuple_item(s, class_index, tuple_size))
     ELSE IF size = 0 \/ s.heap[LastRow(s, fl)].fields[tuple_i] = NULL
          THEN Ret(set_parse_error_format(s,
                     <<"can only come after",
                       field_names[tuple_i + 1].name, field_names[tuple_i].name>>), 0)
          ELSE Ret(s, 1)

\* the index i the loop "while(last->fields[i-1] == NULL) --i;" stops at; it runs off
\* the front of the array (i = 0) when no field of the row is filled
RECURSIVE last_filled(_, _, _)
last_filled(s, row, i) ==
  IF i = 0 THEN 0
  ELSE IF s.heap[row].fields[i] = NULL THEN last_filled(s, row, i - 1) ELSE i

\* frozen_list_check_complete_tuple that accepts any last row
frozen_list_check_complete_tuple_accepts(s, tuple_size, field_names, fl) == Ret(s, 0)

\* reading last->fields[-1] and field_names[-1] is undefined: the process crashes or
\* an error with a garbage name is set
frozen_list_check_complete_tuple(s, tuple_size, field_names, fl) ==
  LET i == last_filled(s, LastRow(s, fl), tuple_size)
  IN IF Len(s.heap[fl].content) = 0 THEN Ret(s, 0)
     ELSE IF i = 0
          THEN IF s.garbage_is_null THEN [s EXCEPT !.crashed = TRUE]
               ELSE Ret(set_parse_error_format(s,
                          <<"must come after", field_names[1].name, "garbage">>), -1)
          ELSE IF i # tuple_size
               THEN Ret(set_parse_error_format(s,
                          <<"must come after", field_names[i + 1].name, field_names[i].name>>), -1)
               ELSE Ret(s, 0)

(***************************************************************************)
(* Name resolution (the template's branch without hash tables:             *)
(* find_str_in_array over the name table)                                  *)
(***************************************************************************)
InTable(key, names) == \E i \in 1..Len(names) : names[i] = key
element_lookup(key) == IF InTable(key, element_names) THEN key ELSE ELEMENT_OTHER
attribute_lookup(key) == IF InTable(key, attribute_names) THEN key ELSE ATTRIBUTE_OTHER

(***************************************************************************)
(* Text is a sequence of one-character strings.                            *)
(***************************************************************************)
Whitespace == {" ", "\t", "\n", "\r"}
yes == <<"y", "e", "s">>
no == <<"n", "o">>

RECURSIVE non_whitespace_from(_, _, _)
non_whitespace_from(str, i, len) ==
  IF i < len
  THEN IF str[i + 1] \in Whitespace THEN non_whitespace_from(str, i + 1, len) ELSE TRUE
  ELSE FALSE
non_whitespace(str, len) == non_whitespace_from(str, 0, len)

(***************************************************************************)
(* Integers.  strtol skips leading white space, takes an optional sign and *)
(* the decimal digits that follow; end is the index of the first character *)
(* it did not use (1 when there are no digits: no conversion).  ERANGE     *)
(* needs 19 digits or more, far longer than any text of the model.         *)
(* Whether a call without conversion sets errno to EINVAL is up to the C    *)
(* library (field einval of the state).                                    *)
(***************************************************************************)
Digits == <<"0", "1", "2", "3", "4", "5", "6", "7", "8", "9">>
IsDigit(c) == \E d \in 1..10 : Digits[d] = c
DigitValue(c) == (CHOOSE d \in 1..10 : Digits[d] = c) - 1

RECURSIVE SkipSpace(_, _)
SkipSpace(str, i) ==
  IF i <= Len(str) /\ str[i] \in Whitespace THEN SkipSpace(str, i + 1) ELSE i

RECURSIVE DigitsEnd(_, _)
DigitsEnd(str, i) ==
  IF i <= Len(str) /\ IsDigit(str[i]) THEN DigitsEnd(str, i + 1) ELSE i

RECURSIVE DigitsValue(_, _, _, _)
DigitsValue(str, i, e, acc) ==
  IF i < e THEN DigitsValue(str, i + 1, e, acc * 10 + DigitValue(str[i])) ELSE acc

strtol(str) ==
  LET i == SkipSpace(str, 1)
      signed == i <= Len(str) /\ str[i] \in {"+", "-"}
      j == IF signed THEN i + 1 ELSE i
      e == DigitsEnd(str, j)
      v == DigitsValue(str, j, e, 0)
  IN IF e = j THEN [value |-> 0, end |-> 1, converted |-> FALSE]
     ELSE [value |-> IF signed /\ str[i] = "-" THEN 0 - v ELSE v, end |-> e,
           converted |-> TRUE]

\* parse_integer: ret 0 with the number in value, or ret -1 with the error set
parse_integer(s, str) ==
  LET r == strtol(str)
      errno == ~r.converted /\ s.einval
      end == SubSeq(str, r.end, Len(str))
  IN IF errno \/ non_whitespace(end, -1)
     THEN Ret(set_parse_error(s, <<"cannot parse integer">>), -1)
     ELSE [s EXCEPT !.value = r.value, !.ret = 0]

(***************************************************************************)
(* Attribute setters.  attr is a pair <<name, text>>.                      *)
(***************************************************************************)
\* set_string_attribute that warns about a duplicate and then stores it all the same
set_string_attribute_last_wins(s, field, attr) ==
  IF Deref(s, field) # NULL
  THEN Store(warn_duplicate_attribute(s, attr[1]), field, Str(attr[2]))
  ELSE Ret(Store(s, field, Str(attr[2])), 0)

\* set_string_attribute that reports success whatever the duplicate warning returned
set_string_attribute_ignores_warning(s, field, attr) ==
  IF Deref(s, field) # NULL THEN Ret(warn_duplicate_attribute(s, attr[1]), 0)
  ELSE Ret(Store(s, field, Str(attr[2])), 0)

set_string_attribute(s, field, attr) ==
  IF Deref(s, field) # NULL THEN warn_duplicate_attribute(s, attr[1])
  ELSE Ret(Store(s, field, Str(attr[2])), 0)

set_DoxBool_attribute(s, field, attr) ==
  IF Deref(s, field) # NULL THEN warn_duplicate_attribute(s, attr[1])
  ELSE IF attr[2] = yes THEN Ret(Store(s, field, Py_True), 0)
  ELSE IF attr[2] = no THEN Ret(Store(s, field, Py_False), 0)
  ELSE Ret(set_parse_error_format(s, <<"must be \"yes\" or \"no\"", attr[1]>>), -1)

set_integer_attribute(s, field, attr) ==
  LET parsed(s1) == IF s1.ret # 0 THEN Ret(s1, -1)
                    ELSE Ret(Store(s1, field, <<"int", s1.value>>), 0)
  IN IF Deref(s, field) # NULL THEN warn_duplicate_attribute(s, attr[1])
     ELSE parsed(parse_integer(s, attr[2]))

set_attribute(s, type, field, attr) ==
  IF type = "DoxBool" THEN set_DoxBool_attribute(s, field, attr)
  ELSE IF type = "integer" THEN set_integer_attribute(s, field, attr)
  ELSE set_string_attribute(s, field, attr)

\* "if(call) return -1;" and the value returned when the call reported nothing
FailOr(s, r) == IF s.ret # 0 THEN Ret(s, -1) ELSE Ret(s, r)

\* the handle_attr macro inside the switch of node_class_attr__<type>
handle_attr(s, n, ref, attr) ==
  FailOr(set_attribute(s, ref.type, FieldSlot(n, ref.field), attr), 1)

node_class_attr(s, type, n, attr_index, attr) ==
  LET refs == Schema[type].attrs
      hit == {i \in 1..Len(refs) : refs[i].name = attr_index}
  IN IF hit = {} THEN Ret(s, 0)
     ELSE handle_attr(s, n, refs[CHOOSE i \in hit : TRUE], attr)

\* node_class_attr_end that treats every absent attribute as optional
RECURSIVE node_class_attr_end_all_optional(_, _, _, _)
node_class_attr_end_all_optional(s, type, n, i) ==
  LET refs == Schema[type].attrs IN
  IF i > Len(refs) THEN Ret(s, 0)
  ELSE IF Deref(s, FieldSlot(n, refs[i].field)) = NULL
       THEN node_class_attr_end_all_optional(Store(s, FieldSlot(n, refs[i].field), Py_None),
                                             type, n, i + 1)
       ELSE node_class_attr_end_all_optional(s, type, n, i + 1)

RECURSIVE node_class_attr_end_from(_, _, _, _)
node_class_attr_end_from(s, type, n, i) ==
  LET refs == Schema[type].attrs IN
  IF i > Len(refs) THEN Ret(s, 0)
  ELSE IF Deref(s, FieldSlot(n, refs[i].field)) = NULL
       THEN IF refs[i].optional
            THEN node_class_attr_end_from(Store(s, FieldSlot(n, refs[i].field), Py_None), type, n, i + 1)
            ELSE Ret(raise_missing_attribute_error(s, refs[i].name), -1)
       ELSE node_class_attr_end_from(s, type, n, i + 1)
node_class_attr_end(s, type, n) == node_class_attr_end_from(s, type, n, 1)

(***************************************************************************)
(* Leaf parsers                                                            *)
(***************************************************************************)
\* node_string_text that replaces the text collected so far
node_string_text_keeps_last(s, str) ==
  Ret(Store(s, top_callbacks(s).value, Str(str)), 0)

node_string_text(s, str) ==
  LET dest == top_callbacks(s).value
  IN IF Deref(s, dest) = NULL THEN Ret(Store(s, dest, Str(str)), 0)
     ELSE Ret(Store(s, dest, Str(Deref(s, dest)[2] \o str)), 0)

node_string_end(s) ==
  LET dest == top_callbacks(s).value
  IN IF Deref(s, dest) = NULL THEN Ret(Store(s, dest, Str(<<>>)), 0) ELSE Ret(s, 0)

RECURSIVE warn_unexpected_attributes(_, _, _)
warn_unexpected_attributes(s, attrs, i) ==
  LET warned(s1) == IF s1.ret # 0 THEN Ret(s1, -1)
                    ELSE warn_unexpected_attributes(s1, attrs, i + 1)
  IN IF i > Len(attrs) THEN Ret(s, 0)
     ELSE warned(warn_unexpected_attribute(s, attrs[i][1]))

\* the end of every node_start_ and node_class_start function: push_callbacks has
\* returned; fill the frame and return 1, or return -1 when it returned NULL
PushedFrame(s, frame) == IF s.ret = 0 THEN Ret(s, -1) ELSE Ret(SetFrame(s, frame), 1)

node_start_string(s, dest, attrs) ==
  LET warned(s1) ==
        IF s1.ret # 0 THEN Ret(s1, -1)
        ELSE PushedFrame(push_callbacks(Store(s1, dest, NULL)),
                         Frame(dest, NullCall, Call("node_string_text", ""),
                               Call("node_string_end", "")))
  IN warned(warn_unexpected_attributes(s, attrs, 1))

\* the character with code value, for the codes the model's documents use
Chr(value) ==
  IF value = 32 THEN " " ELSE IF value = 65 THEN "A" ELSE IF value = 66 THEN "B"
  ELSE "chr(" \o ToString(value) \o ")"

\* append_str_obj and its callers: the string at dest gets src appended
append_str_obj(s, dest, src) == Ret(Store(s, dest, Str(Deref(s, dest)[2] \o src)), 0)

\* node_start_spType from attribute i on, with c the character so far
RECURSIVE node_start_spType_from(_, _, _, _, _)
node_start_spType_from(s, dest, attrs, i, c) ==
  LET pushed(s3) == PushedFrame(push_callbacks(s3), Frame(NilSlot, NullCall, NullCall, NullCall))
      parsed(s2) ==
        IF s2.ret # 0 THEN Ret(s2, -1)
        ELSE IF s2.value < 0 \/ s2.value > 127
             THEN Ret(set_parse_error(s2, <<"\"value\" must be between 0 and 127">>), -1)
             ELSE node_start_spType_from(s2, dest, attrs, i + 1, Chr(s2.value))
      warned(s1) == IF s1.ret # 0 THEN Ret(s1, -1) ELSE parsed(parse_integer(s1, attrs[i][2]))
  IN IF i > Len(attrs)
     THEN IF Deref(s, dest) = NULL THEN pushed(Store(s, dest, Str(<<c>>)))
          ELSE pushed(append_str_obj(s, dest, <<c>>))
     ELSE IF attrs[i][1] # "value" THEN warned(warn_unexpected_attribute(s, attrs[i][1]))
          ELSE warned(Ret(s, 0))

node_start_spType(s, dest, attrs) == node_start_spType_from(s, dest, attrs, 1, " ")

\* node_list_common_text that adds every piece of text as an entry of its own
node_list_common_text_no_merge(s, str) ==
  frozen_list_push_object(s, Deref(s, top_callbacks(s).value)[2], Str(str),
                          NODE_LIST_INITIAL_CAPACITY)

node_list_common_text(s, str) ==
  LET n == Deref(s, top_callbacks(s).value)[2]
      size == Len(s.heap[n].content)
  IN IF size # 0 /\ IsStr(s.heap[n].content[size])
     THEN append_str_obj(s, ContentSlot(n, size), str)
     ELSE frozen_list_push_object(s, n, Str(str), NODE_LIST_INITIAL_CAPACITY)

(***************************************************************************)
(* The generated per-type handlers, node_class_*__<type>, with the type    *)
(* as a parameter.                                                         *)
(***************************************************************************)
\* the create_frozen_list calls of node_class_start for the repeated children
RECURSIVE create_child_lists(_, _, _, _)
create_child_lists(s, type, n, i) ==
  LET refs == Schema[type].children
      created(s1) == create_child_lists(Store(s1, FieldSlot(n, refs[i].field), Ref(s1.ret)),
                                        type, n, i + 1)
  IN IF i > Len(refs) THEN s
     ELSE IF refs[i].is_list THEN created(create_frozen_list(s))
     ELSE create_child_lists(s, type, n, i + 1)

\* one iteration of the attribute loop of node_class_start: ret -1 to return -1
attr_loop_body(s, type, n, attr) ==
  LET handled(s1) ==
        IF Schema[type].other_attr = "error"
        THEN IF s1.ret < 0 THEN Ret(s1, -1)
             ELSE IF s1.ret = 0 THEN FailOr(warn_unexpected_attribute(s1, attr[1]), 0)
             ELSE Ret(s1, 0)
        ELSE IF s1.ret < 0 THEN Ret(s1, -1) ELSE Ret(s1, 0)
  IN IF has_attributes(type)
     THEN handled(node_class_attr(s, type, n, attribute_lookup(attr[1]), attr))
     ELSE FailOr(warn_unexpected_attribute(s, attr[1]), 0)

RECURSIVE attr_loop(_, _, _, _, _)
attr_loop(s, type, n, attrs, i) ==
  LET done(s1) == IF s1.ret < 0 THEN s1 ELSE attr_loop(s1, type, n, attrs, i + 1)
  IN IF i > Len(attrs) THEN Ret(s, 0)
     ELSE done(attr_loop_body(s, type, n, attrs[i]))

node_class_start(s, type, dest, attrs) ==
  LET frame == Frame(dest,
                 IF has_children_or_content(type)
                 THEN Call("node_class_child_start", type) ELSE NullCall,
                 IF Schema[type].allow_text
                 THEN Call("node_list_common_text", "") ELSE NullCall,
                 IF has_children_or_tuple_content(type)
                 THEN Call("node_class_finish", type) ELSE NullCall)
      checked(s4) == IF s4.ret < 0 THEN Ret(s4, -1)
                     ELSE PushedFrame(push_callbacks(s4), frame)
      looped(s3, n) == IF s3.ret < 0 \/ ~has_attributes(type) THEN checked(s3)
                       ELSE checked(node_class_attr_end(s3, type, n))
      listed(s2, n) == IF has_attributes(type) \/ Schema[type].other_attr = "error"
                       THEN looped(attr_loop(s2, type, n, attrs, 1), n)
                       ELSE looped(Ret(s2, 0), n)
      created(s1) == listed(create_child_lists(Store(s1, dest, Ref(s1.ret)), type, s1.ret, 1),
                            s1.ret)
  IN IF Len(Schema[type].content) > 0
     THEN created(create_node_list_common(s, type, Schema[type].field_count))
     ELSE created(create_node_tagonly_common(s, type, Schema[type].field_count))

\* node_start_<builtin> or node_class_start__<type>
node_start(s, type, dest, attrs) ==
  IF type = "string" THEN node_start_string(s, dest, attrs)
  ELSE IF type = "spType" THEN node_start_spType(s, dest, attrs)
  ELSE node_class_start(s, type, dest, attrs)

\* the content cases of the switch in node_class_child: a field of a tuple row, or an
\* item of a plain content list
node_class_child_content(s, type, n, e_index, attrs) ==
  LET refs == Schema[type].content
      hit == {i \in 1..Len(refs) : refs[i].name = e_index}
      c == CHOOSE i \in hit : TRUE
      got(s1) == IF s1.ret = 0 THEN Ret(s1, -1)
                 ELSE node_start(s1, refs[c].type, FieldSlot(LastRow(s1, n), c), attrs)
      reserved(s1) == node_start(s1, refs[c].type, ContentSlot(n, Len(s1.heap[n].content)), attrs)
      size == Len(s.heap[n].content)
      tagged(s1) == node_start(s1, refs[c].type, FieldSlot(s1.ret, 2), attrs)
  IN IF hit = {} THEN Ret(s, 0)
     ELSE IF Schema[type].content_tuple
          THEN got(frozen_list_push_tuple_item(s, c - 1, Len(refs), refs, type, n,
                                               NODE_LIST_INITIAL_CAPACITY))
     ELSE IF Schema[type].content_union
          THEN IF refs[c].appends_str /\ size # 0 /\ IsStr(s.heap[n].content[size])
               THEN node_start(s, refs[c].type, ContentSlot(n, size), attrs)
               ELSE tagged(frozen_list_push_tagged_value(s, refs[c].name, n,
                                                         NODE_LIST_INITIAL_CAPACITY))
          ELSE reserved(frozen_list_push_object(s, n, NULL, NODE_LIST_INITIAL_CAPACITY))

\* node_class_child without the test for an occupied singular field
node_class_child_overwrites(s, type, n, e_index, attrs) ==
  LET refs == Schema[type].children
      hit == {i \in 1..Len(refs) : refs[i].name = e_index}
      cref == refs[CHOOSE i \in hit : TRUE]
      fl == Deref(s, FieldSlot(n, cref.field))[2]
      reserved(s1) == node_start(s1, cref.type, ContentSlot(fl, Len(s1.heap[fl].content)), attrs)
  IN IF hit = {} THEN node_class_child_content(s, type, n, e_index, attrs)
     ELSE IF cref.is_list
          THEN reserved(frozen_list_push_object(s, fl, NULL, NODE_LIST_INITIAL_CAPACITY))
          ELSE node_start(s, cref.type, FieldSlot(n, cref.field), attrs)

node_class_child(s, type, n, e_index, attrs) ==
  LET refs == Schema[type].children
      hit == {i \in 1..Len(refs) : refs[i].name = e_index}
      cref == refs[CHOOSE i \in hit : TRUE]
      fl == Deref(s, FieldSlot(n, cref.field))[2]
      reserved(s1) == node_start(s1, cref.type, ContentSlot(fl, Len(s1.heap[fl].content)), attrs)
  IN IF hit = {} THEN node_class_child_content(s, type, n, e_index, attrs)
     ELSE IF cref.is_list
          THEN reserved(frozen_list_push_object(s, fl, NULL, NODE_LIST_INITIAL_CAPACITY))
          ELSE IF Deref(s, FieldSlot(n, cref.field)) # NULL
               THEN Ret(raise_duplicate_element_error(s, cref.name), -1)
               ELSE node_start(s, cref.type, FieldSlot(n, cref.field), attrs)

node_class_child_start(s, type, child_name, attrs) ==
  node_class_child(s, type, Deref(s, top_callbacks(s).value)[2], element_lookup(child_name), attrs)

\* node_class_finish_fields that reports an empty required list as a missing child
RECURSIVE node_class_finish_fields_one_error(_, _, _, _)
node_class_finish_fields_one_error(s, type, n, i) ==
  LET refs == Schema[type].children
      f == FieldSlot(n, refs[i].field)
  IN
  IF i > Len(refs) THEN Ret(s, 0)
  ELSE IF refs[i].min_items > 0
       THEN IF (refs[i].is_list /\ Len(s.heap[Deref(s, f)[2]].content) < 1)
               \/ (~refs[i].is_list /\ Deref(s, f) = NULL)
            THEN Ret(raise_missing_element_error(s, refs[i].name), -1)
            ELSE node_class_finish_fields_one_error(s, type, n, i + 1)
       ELSE IF ~refs[i].is_list /\ Deref(s, f) = NULL
            THEN node_class_finish_fields_one_error(Store(s, f, Py_None), type, n, i + 1)
            ELSE node_class_finish_fields_one_error(s, type, n, i + 1)

\* node_class_finish_fields that leaves an absent optional child unset
RECURSIVE node_class_finish_fields_no_default(_, _, _, _)
node_class_finish_fields_no_default(s, type, n, i) ==
  LET refs == Schema[type].children
      f == FieldSlot(n, refs[i].field)
  IN
  IF i > Len(refs) THEN Ret(s, 0)
  ELSE IF refs[i].min_items > 0
       THEN IF refs[i].is_list
            THEN IF Len(s.heap[Deref(s, f)[2]].content) < 1
                 THEN Ret(raise_empty_list_element_error(s, refs[i].name), -1)
                 ELSE node_class_finish_fields_no_default(s, type, n, i + 1)
            ELSE IF Deref(s, f) = NULL
                 THEN Ret(raise_missing_element_error(s, refs[i].name), -1)
                 ELSE node_class_finish_fields_no_default(s, type, n, i + 1)
       ELSE node_class_finish_fields_no_default(s, type, n, i + 1)

RECURSIVE node_class_finish_fields_from(_, _, _, _)
node_class_finish_fields_from(s, type, n, i) ==
  LET refs == Schema[type].children
      f == FieldSlot(n, refs[i].field)
  IN
  IF i > Len(refs) THEN Ret(s, 0)
  ELSE IF refs[i].min_items > 0
       THEN IF refs[i].is_list
            THEN IF Len(s.heap[Deref(s, f)[2]].content) < 1
                 THEN Ret(raise_empty_list_element_error(s, refs[i].name), -1)
                 ELSE node_class_finish_fields_from(s, type, n, i + 1)
            ELSE IF Deref(s, f) = NULL
                 THEN Ret(raise_missing_element_error(s, refs[i].name), -1)
                 ELSE node_class_finish_fields_from(s, type, n, i + 1)
       ELSE IF ~refs[i].is_list /\ Deref(s, f) = NULL
            THEN node_class_finish_fields_from(Store(s, f, Py_None), type, n, i + 1)
            ELSE node_class_finish_fields_from(s, type, n, i + 1)
node_class_finish_fields(s, type, n) == node_class_finish_fields_from(s, type, n, 1)

node_class_finish(s, type) ==
  LET n == Deref(s, top_callbacks(s).value)[2]
      checked(s1) ==
        IF s1.ret # 0 THEN Ret(s1, -1)
        ELSE IF Schema[type].content_tuple /\ Len(Schema[type].content) > 1
             THEN frozen_list_check_complete_tuple(s1, Len(Schema[type].content),
                                                   Schema[type].content, n)
             ELSE Ret(s1, 0)
  IN IF has_children(type) THEN checked(node_class_finish_fields(s, type, n))
     ELSE checked(Ret(s, 0))

toplevel_start(s, child_name, attrs) ==
  LET cb == top_callbacks(s)
      e == element_lookup(child_name)
      created(s2) ==
        node_start(Store(Store(s2, cb.value, Ref(s2.ret)), FieldSlot(s2.ret, 1), <<"tag", e>>),
                   root_elements[e], FieldSlot(s2.ret, 2), attrs)
  IN IF e \in DOMAIN root_elements
     THEN IF Deref(s, cb.value) # NULL
          THEN created(create_tagged_value(
                 set_parse_error(s, <<"cannot have more than one root element">>)))
          ELSE created(create_tagged_value(s))
     ELSE Ret(s, 0)

(***************************************************************************)
(* The expat handlers.  A call through a pointer that was never            *)
(* initialised (the root frame's t_call and f_call) is undefined: the      *)
(* memory may happen to hold a null pointer (garbage_is_null), otherwise   *)
(* the call crashes.  called records which frame handler the callback      *)
(* invoked.                                                                *)
(***************************************************************************)
Crash(s) == [s EXCEPT !.crashed = TRUE]

call_cs(s, f, name, attrs) ==
  IF f.fn = "toplevel_start" THEN toplevel_start([s EXCEPT !.called = "cs_call"], name, attrs)
  ELSE node_class_child_start([s EXCEPT !.called = "cs_call"], f.type, name, attrs)

call_f(s, f) ==
  IF f.fn = "node_string_end" THEN node_string_end([s EXCEPT !.called = "f_call"])
  ELSE node_class_finish([s EXCEPT !.called = "f_call"], f.type)

call_t(s, f, str) ==
  IF f.fn = "node_list_common_text"
  THEN node_list_common_text([s EXCEPT !.called = "t_call"], str)
  ELSE node_string_text([s EXCEPT !.called = "t_call"], str)

StopIf(s) == IF s.ret # 0 THEN XML_StopParser(s) ELSE s

\* start_element that counts only the first level of an ignored subtree
start_element_counts_one_level(s, name, attrs) ==
  LET pcb == top_callbacks(s)
      warned(s2) == IF s2.ret # 0 THEN XML_StopParser(s2) ELSE [s2 EXCEPT !.ignore_level = 1]
      called(s1) == IF s1.ret < 0 THEN XML_StopParser(s1)
                    ELSE IF s1.ret > 0 THEN s1
                    ELSE warned(SET_PARSE_WARNING_FMT(s1, <<"unexpected element", name>>))
  IN IF ~StackNonEmpty(s) THEN Crash(s)
     ELSE IF s.ignore_level # 0 THEN s
     ELSE IF pcb.cs_call # NullCall THEN called(call_cs(s, pcb.cs_call, name, attrs))
     ELSE called(Ret(s, 0))

start_element(s, name, attrs) ==
  LET pcb == top_callbacks(s)
      warned(s2) == IF s2.ret # 0 THEN XML_StopParser(s2) ELSE [s2 EXCEPT !.ignore_level = 1]
      called(s1) == IF s1.ret < 0 THEN XML_StopParser(s1)
                    ELSE IF s1.ret > 0 THEN s1
                    ELSE warned(SET_PARSE_WARNING_FMT(s1, <<"unexpected element", name>>))
  IN IF ~StackNonEmpty(s) THEN Crash(s)
     ELSE IF s.ignore_level # 0 THEN [s EXCEPT !.ignore_level = @ + 1]
     ELSE IF pcb.cs_call # NullCall THEN called(call_cs(s, pcb.cs_call, name, attrs))
     ELSE called(Ret(s, 0))

\* end_element without the return of the ignore branch
end_element_pops_while_ignoring(s) ==
  LET pcb == top_callbacks(s) IN
  IF ~StackNonEmpty(s) THEN Crash(s)
  ELSE IF s.ignore_level # 0 THEN pop_callbacks([s EXCEPT !.ignore_level = @ - 1])
  ELSE IF pcb.f_call = UninitCall
       THEN IF s.garbage_is_null THEN pop_callbacks(s) ELSE Crash(s)
       ELSE IF pcb.f_call # NullCall
            THEN pop_callbacks(StopIf(call_f(s, pcb.f_call)))
            ELSE pop_callbacks(s)

\* end_element that leaves the frame on the stack
end_element_keeps_frame(s) ==
  LET pcb == top_callbacks(s) IN
  IF ~StackNonEmpty(s) THEN Crash(s)
  ELSE IF s.ignore_level # 0 THEN [s EXCEPT !.ignore_level = @ - 1]
  ELSE IF pcb.f_call = UninitCall
       THEN IF s.garbage_is_null THEN s ELSE Crash(s)
       ELSE IF pcb.f_call # NullCall THEN StopIf(call_f(s, pcb.f_call)) ELSE s

\* end_element that pops a frame for the end of an ignored element as well
end_element_pops_ignored(s) ==
  IF ~StackNonEmpty(s) THEN Crash(s)
  ELSE pop_callbacks([s EXCEPT !.ignore_level = IF @ > 0 THEN @ - 1 ELSE 0])

end_element(s) ==
  LET pcb == top_callbacks(s) IN
  IF ~StackNonEmpty(s) THEN Crash(s)
  ELSE IF s.ignore_level # 0 THEN [s EXCEPT !.ignore_level = @ - 1]
  ELSE IF pcb.f_call = UninitCall
       THEN IF s.garbage_is_null THEN pop_callbacks(s) ELSE Crash(s)
       ELSE IF pcb.f_call # NullCall
            THEN pop_callbacks(StopIf(call_f(s, pcb.f_call)))
            ELSE pop_callbacks(s)

\* character_data without the ignore_level test
character_data_while_ignoring(s, str) ==
  LET pcb == top_callbacks(s) IN
  IF ~StackNonEmpty(s) THEN Crash(s)
  ELSE IF pcb.t_call = UninitCall /\ ~s.garbage_is_null THEN Crash(s)
  ELSE IF pcb.t_call # NullCall /\ pcb.t_call # UninitCall
       THEN StopIf(call_t(s, pcb.t_call, str))
       ELSE IF non_whitespace(str, Len(str))
            THEN StopIf(set_parse_warning(s, <<"unexpected character data">>))
            ELSE s

character_data(s, str) ==
  LET pcb == top_callbacks(s) IN
  IF ~StackNonEmpty(s) THEN Crash(s)
  ELSE IF s.ignore_level # 0 THEN s
  ELSE IF pcb.t_call = UninitCall /\ ~s.garbage_is_null THEN Crash(s)
  ELSE IF pcb.t_call # NullCall /\ pcb.t_call # UninitCall
       THEN StopIf(call_t(s, pcb.t_call, str))
       ELSE IF non_whitespace(str, Len(str))
            THEN StopIf(set_parse_warning(s, <<"unexpected character data">>))
            ELSE s

(***************************************************************************)
(* parse(): the driver.  XML_Parse or XML_ParseBuffer has returned with    *)
(* status r_status; run the rest of parse_str / parse_file and of parse.   *)
(***************************************************************************)
raise_expat_error(s, error_string) ==
  IF s.pyerr = NoError
  THEN [s EXCEPT !.pyerr = ParseError(error_string, "error line")]
  ELSE s

\* lines 2007-2014: the blocks handed to PyMem_Free, in order.  The first loop walks
\* prev from block b to the head of the chain, the second walks next from there.
RECURSIVE first_block(_)
first_block(b) == IF b > 1 THEN first_block(b - 1) ELSE b

RECURSIVE blocks_from(_, _)
blocks_from(b, n) == IF b > n THEN <<>> ELSE <<b>> \o blocks_from(b + 1, n)

\* freeing from the current block on, without walking back to the head
free_blocks_from_current(s) == blocks_from(s.block, s.nblocks)

free_blocks(s) == blocks_from(first_block(s.block), s.nblocks)

\* parse's ending without the test for a missing root
parse_end_no_root_test(s, r) ==
  IF r # 0 THEN [s EXCEPT !.nblocks = @ - Len(free_blocks(s)), !.ret = NULL, !.released = (s.r_obj # NULL)]
  ELSE [s EXCEPT !.nblocks = @ - Len(free_blocks(s)), !.ret = s.r_obj]

\* lines 2007-2032: free the blocks, then decide what to return; ret is the value returned
parse_end(s, r) ==
  IF r # 0 THEN [s EXCEPT !.nblocks = @ - Len(free_blocks(s)), !.ret = NULL, !.released = (s.r_obj # NULL)]
  ELSE IF s.r_obj = NULL
       THEN [s EXCEPT !.nblocks = @ - Len(free_blocks(s)), !.ret = NULL,
               !.pyerr = ParseError(<<"document without a recognized root element">>, "none")]
       ELSE [s EXCEPT !.nblocks = @ - Len(free_blocks(s)), !.ret = s.r_obj]

(***************************************************************************)
(* The state machine.  The tokenizer delivers callbacks for a well-nested  *)
(* sequence of elements; an empty-element tag is a start callback with the *)
(* end callback owed (pending = "end"), which expat delivers even when the *)
(* start handler stopped the parser; character data that stopped the       *)
(* parser may be followed by the remaining pieces of the same run          *)
(* (pending = "text").                                                     *)
(***************************************************************************)
ElementNames == {"doc", "sec", "title", "name", "x"}
AttrLists == {<<>>, << <<"id", <<"1">>>> >>, << <<"zz", <<"1">>>> >>}
TextPieces == {<<"a">>, <<" ">>}

\* the drivers' local variables: data is the argument of parse_str, s and len its
\* cursor (s as an offset into the input); left is what the source of parse_file still
\* holds, bytes_read and r the locals of that name; feeds and reads record the calls
NoIo == [ data |-> [kind |-> "none", len |-> 0], s |-> 0, len |-> 0, left |-> 0,
          bytes_read |-> 0, r |-> -1, feeds |-> <<>>, reads |-> <<>> ]

InitFrame == Frame(RootSlot, Call("toplevel_start", ""), UninitCall, UninitCall)
NoEvent == [ev |-> "none", name |-> "", attrs |-> <<>>, called |-> "none"]

Init ==
  /\ block = 1
  /\ block_used = 1
  /\ nblocks = 1
  /\ stackmem = << <<InitFrame>> >>
  /\ shadow = <<>>
  /\ ignore_level = 0
  /\ heap = <<>>
  /\ r_obj = NULL
  /\ pyerr = NoError
  /\ warnings = <<>>
  /\ escalate \in BOOLEAN
  /\ stopped = FALSE
  /\ pending = "none"
  /\ open = <<>>
  /\ nevents = 0
  /\ pc = "parsing"
  /\ result = [value |-> NULL, released |-> FALSE]
  /\ last = NoEvent
  /\ io = NoIo

\* the handler's resulting state becomes the next state
Becomes(s) ==
  /\ block' = s.block
  /\ block_used' = s.block_used
  /\ nblocks' = s.nblocks
  /\ stackmem' = s.stackmem
  /\ ignore_level' = s.ignore_level
  /\ heap' = s.heap
  /\ r_obj' = s.r_obj
  /\ pyerr' = s.pyerr
  /\ warnings' = s.warnings
  /\ stopped' = s.stopped
  /\ UNCHANGED <<escalate, shadow, io>>

Delivered(s, ev, name, attrs) ==
  /\ Becomes(s)
  /\ nevents' = nevents + 1
  /\ pc' = IF s.crashed THEN "crashed" ELSE "parsing"
  /\ last' = [ev |-> ev, name |-> name, attrs |-> attrs, called |-> s.called]
  /\ result' = result

\* the tokenizer may deliver the next callback of the input; n bounds the callbacks
CanDeliverWithin(n) == pc = "parsing" /\ ~stopped /\ pending = "none" /\ nevents < n
CanDeliver == CanDeliverWithin(MaxEvents)

\* what the tokenizer's element became: framed when its start handler returned 1, with
\* the frame on top of the stack after its start callback
OpenElement(s, name) ==
  [ name |-> name,
    framed |-> ignore_level = 0 /\ s.called = "cs_call" /\ s.ret > 0,
    frame |-> IF StackNonEmpty(s) THEN top_callbacks(s) ELSE InitFrame ]

StartElementWithin(n, name, attrs, empty) ==
  /\ CanDeliverWithin(n)
  /\ Len(open) < MaxDepth
  /\ \E s \in {start_element(Cur, name, attrs)} :
     /\ Delivered(s, "start", name, attrs)
     /\ open' = Append(open, OpenElement(s, name))
     /\ pending' = IF empty THEN "end" ELSE "none"

StartElement(name, attrs, empty) == StartElementWithin(MaxEvents, name, attrs, empty)

EndElementWithin(n) ==
  /\ pc = "parsing"
  /\ Len(open) > 0
  /\ CanDeliverWithin(n) \/ pending = "end"
  /\ \E g \in BOOLEAN :
       Delivered(end_element([Cur EXCEPT !.garbage_is_null = g]), "end", "", <<>>)
  /\ open' = SubSeq(open, 1, Len(open) - 1)
  /\ pending' = "none"

EndElement == EndElementWithin(MaxEvents)

CharacterDataWithin(n, str) ==
  /\ pc = "parsing"
  /\ Len(open) > 0
  /\ CanDeliverWithin(n) \/ (pending = "text" /\ nevents < n)
  /\ \E g \in BOOLEAN :
       \E s \in {character_data([Cur EXCEPT !.garbage_is_null = g], str)} :
       /\ Delivered(s, "text", "", <<>>)
       /\ pending' \in IF s.stopped THEN {"none", "text"} ELSE {"none"}
  /\ open' = open

CharacterData(str) == CharacterDataWithin(MaxEvents, str)

\* parse returns; how records the way the tokenizer's run ended
Returned(s, how) ==
  /\ Becomes(s)
  /\ pc' = "done"
  /\ result' = [value |-> s.ret, released |-> s.released]
  /\ last' = [last EXCEPT !.ev = how]
  /\ UNCHANGED <<pending, open, nevents>>

\* XML_Parse returns XML_STATUS_ERROR because a handler stopped the parser
ParseAborted ==
  /\ pc = "parsing" /\ stopped /\ pending # "end"
  /\ Returned(parse_end(raise_expat_error(Cur, XML_ErrorString_ABORTED), -1), "aborted")

\* XML_Parse returns XML_STATUS_ERROR because the input is not well formed here
TokenizerError ==
  /\ pc = "parsing" /\ ~stopped /\ pending = "none"
  /\ Returned(parse_end(raise_expat_error(Cur, XML_ErrorString_SYNTAX), -1), "syntax error")

\* the final XML_Parse returns XML_STATUS_OK: every element is closed
EndOfInput ==
  /\ pc = "parsing" /\ ~stopped /\ pending = "none"
  /\ Len(open) = 0 /\ nevents > 0
  /\ Returned(parse_end(Cur, 0), "end of input")

Next ==
  \/ \E name \in ElementNames, attrs \in AttrLists, empty \in BOOLEAN :
       StartElement(name, attrs, empty)
  \/ EndElement
  \/ \E str \in TextPieces : CharacterData(str)
  \/ ParseAborted
  \/ TokenizerError
  \/ EndOfInput

Spec == Init /\ [][Next]_vars

(***************************************************************************)
(* The attribute specification: the same machine, fed start tags with      *)
(* every attribute list of up to MaxAttrs attributes on the root element   *)
(* (a document has one root element) and the name children the root types  *)
(* require.                                                                *)
(***************************************************************************)
AttrPairs == { <<"id", <<"1">>>>, <<"id", <<"2">>>>, <<"flag", yes>>, <<"lang", <<"1">>>>,
               <<"zz", <<"1">>>> }
RichAttrLists == UNION { [1..n -> AttrPairs] : n \in 0..MaxAttrs }

NextAttr ==
  \/ /\ open = <<>> /\ r_obj = NULL
     /\ \E name \in {"doc", "sec"}, attrs \in RichAttrLists, empty \in BOOLEAN :
          StartElement(name, attrs, empty)
  \/ /\ open # <<>>
     /\ \E empty \in BOOLEAN : StartElement("name", <<>>, empty)
  \/ EndElement
  \/ \E str \in TextPieces : CharacterData(str)
  \/ ParseAborted
  \/ TokenizerError
  \/ EndOfInput

SpecAttr == Init /\ [][NextAttr]_vars

(***************************************************************************)
(* The repeated-child specification: documents made of doc and name        *)
(* elements with text, long enough for a doc with two name children to     *)
(* close.                                                                  *)
(***************************************************************************)
ListAttrs(name) == IF name = "doc" THEN << <<"id", <<"1">>>> >> ELSE <<>>

NextList ==
  \/ \E name \in {"doc", "name"} :
       StartElementWithin(MaxListEvents, name, ListAttrs(name), FALSE)
  \/ EndElementWithin(MaxListEvents)
  \/ \E str \in {<<"a">>, <<"b">>} : CharacterDataWithin(MaxListEvents, str)
  \/ ParseAborted
  \/ TokenizerError
  \/ EndOfInput

SpecList == Init /\ [][NextList]_vars

(***************************************************************************)
(* The tuple-content specification: documents made of tab, k, v and w      *)
(* elements with text, long enough for a tab with one complete row to      *)
(* close.                                                                  *)
(***************************************************************************)
NextContent ==
  \/ \E name \in {"tab", "k", "v", "w"} :
       StartElementWithin(MaxContentEvents, name, <<>>, FALSE)
  \/ EndElementWithin(MaxContentEvents)
  \/ CharacterDataWithin(MaxContentEvents, <<"a">>)
  \/ ParseAborted
  \/ TokenizerError
  \/ EndOfInput

SpecContent == Init /\ [][NextContent]_vars

(***************************************************************************)
(* The list-growth specification: a doc with name children, long enough    *)
(* for the list of names to outgrow its initial capacity while a name is   *)
(* open.                                                                   *)
(***************************************************************************)
GrowAttrs(name) == IF name = "doc" THEN << <<"id", <<"1">>>> >> ELSE <<>>

NextGrow ==
  \/ \E name \in {"doc", "name"} :
       StartElementWithin(MaxGrowEvents, name, GrowAttrs(name), FALSE)
  \/ EndElementWithin(MaxGrowEvents)
  \/ ParseAborted
  \/ TokenizerError
  \/ EndOfInput

SpecGrow == Init /\ [][NextGrow]_vars

(***************************************************************************)
(* The nested-record specification: documents made of doc, sec and name    *)
(* elements with text, long enough for a sec inside a doc to end and the   *)
(* doc to go on after it.                                                  *)
(***************************************************************************)
NestAttrs(name) == IF name \in {"doc", "sec"} THEN << <<"id", <<"1">>>> >> ELSE <<>>

NextNest ==
  \/ \E name \in {"doc", "sec", "name"} :
       StartElementWithin(MaxNestEvents, name, NestAttrs(name), FALSE)
  \/ EndElementWithin(MaxNestEvents)
  \/ CharacterDataWithin(MaxNestEvents, <<"a">>)
  \/ ParseAborted
  \/ TokenizerError
  \/ EndOfInput

SpecNest == Init /\ [][NextNest]_vars

(***************************************************************************)
(* The row-start specification: documents made of tab, k and v elements,   *)
(* written as start tags or empty-element tags, with or without an         *)
(* attribute the schema does not declare.                                  *)
(***************************************************************************)
RowAttrLists == {<<>>, << <<"x", <<"1">>>> >>}

NextRow ==
  \/ \E name \in {"tab", "k", "v"}, attrs \in RowAttrLists, empty \in BOOLEAN :
       StartElementWithin(MaxRowEvents, name, attrs, empty)
  \/ EndElementWithin(MaxRowEvents)
  \/ ParseAborted
  \/ TokenizerError
  \/ EndOfInput

SpecRow == Init /\ [][NextRow]_vars

(***************************************************************************)
(* The record-row specification: well-formed documents with the single     *)
(* root element grid, made of k, sec and name elements, long enough for a  *)
(* row whose sec has ended to take a further sec.  The tokenizer reports   *)
(* an element after the root element as a syntax error and delivers no     *)
(* callback for it.                                                        *)
(***************************************************************************)
GridAttrs(name) == IF name = "sec" THEN << <<"id", <<"1">>>> >> ELSE <<>>

NextGrid ==
  \/ /\ nevents = 0
     /\ StartElementWithin(MaxGridEvents, "grid", <<>>, FALSE)
  \/ /\ open # <<>>
     /\ \E name \in {"k", "sec", "name"} :
          StartElementWithin(MaxGridEvents, name, GridAttrs(name), FALSE)
  \/ EndElementWithin(MaxGridEvents)
  \/ ParseAborted
  \/ TokenizerError
  \/ EndOfInput

SpecGrid == Init /\ [][NextGrid]_vars

(***************************************************************************)
(* The text-content specification: documents made of para, sp and b        *)
(* elements with text.                                                     *)
(***************************************************************************)
TextAttrs(name) ==
  IF name = "sp" THEN {<<>>, << <<"value", <<"6", "5">>>> >>} ELSE {<<>>}

NextText ==
  \/ \E name \in {"para", "sp", "b"} :
       \E attrs \in TextAttrs(name) : StartElementWithin(MaxTextEvents, name, attrs, FALSE)
  \/ EndElementWithin(MaxTextEvents)
  \/ \E str \in TextPieces : CharacterDataWithin(MaxTextEvents, str)
  \/ ParseAborted
  \/ TokenizerError
  \/ EndOfInput

SpecText == Init /\ [][NextText]_vars

(***************************************************************************)
(* The integer specification: para and sp elements with integer            *)
(* attributes, well formed or not.  The C library's choice of reporting a  *)
(* call of strtol without conversion is made per start tag.                *)
(***************************************************************************)
IntTexts == {<<"1", "2">>, <<"1", "x">>, <<"x">>, <<>>, <<" ", "7">>, <<"-", "1">>,
             <<"6", "6">>, <<"2", "0", "0">>}

IntAttrs(name) ==
  IF name = "para" THEN {<<>>} \cup { << <<"n", text>> >> : text \in IntTexts }
  ELSE {<<>>} \cup { << <<a, text>> >> : a \in {"value", "zz"}, text \in IntTexts }
         \cup { << <<"value", <<"6", "6">>>>, <<"zz", text>> >> : text \in IntTexts }

StartElementLibc(n, name, attrs, einval) ==
  /\ CanDeliverWithin(n)
  /\ Len(open) < MaxDepth
  /\ \E s \in {start_element([Cur EXCEPT !.einval = einval], name, attrs)} :
     /\ Delivered(s, "start", name, attrs)
     /\ open' = Append(open, OpenElement(s, name))
     /\ pending' = "none"

NextInt ==
  \/ \E name \in {"para", "sp"}, einval \in BOOLEAN :
       \E attrs \in IntAttrs(name) : StartElementLibc(MaxIntEvents, name, attrs, einval)
  \/ EndElementWithin(MaxIntEvents)
  \/ ParseAborted
  \/ TokenizerError
  \/ EndOfInput

SpecInt == Init /\ [][NextInt]_vars

(***************************************************************************)
(* The input drivers.  The tokenizer is seen from outside: a feed call     *)
(* (XML_Parse, XML_ParseBuffer) is recorded and returns a status.  A feed  *)
(* is [off, n, final]: where the bytes come from (offset into the input of *)
(* parse_str, number of the read of parse_file), how many, and the         *)
(* is-final flag.                                                          *)
(***************************************************************************)
XML_STATUS_OK == "XML_STATUS_OK"
XML_STATUS_ERROR == "XML_STATUS_ERROR"

PyError(cls, msg) == [cls |-> cls, msg |-> msg, lineno |-> "none"]

XML_Parse(x, s, len, isFinal) ==
  [x EXCEPT !.feeds = Append(@, [off |-> s, n |-> len, final |-> isFinal])]

XML_ParseBuffer(x, len, isFinal) ==
  [x EXCEPT !.feeds = Append(@, [off |-> Len(x.reads), n |-> len, final |-> isFinal])]

\* a driver step: only pc, io and the pending exception change
DriverStep(newpc, x, err) ==
  /\ pc' = newpc
  /\ io' = x
  /\ pyerr' = err
  /\ UNCHANGED <<block, block_used, nblocks, stackmem, shadow, ignore_level, heap, r_obj,
                 warnings, escalate, stopped, pending, open, nevents, result, last>>

DriverInit(p, x) ==
  /\ block = 1
  /\ block_used = 1
  /\ nblocks = 1
  /\ stackmem = << <<InitFrame>> >>
  /\ shadow = <<>>
  /\ ignore_level = 0
  /\ heap = <<>>
  /\ r_obj = NULL
  /\ pyerr = NoError
  /\ warnings = <<>>
  /\ escalate = FALSE
  /\ stopped = FALSE
  /\ pending = "none"
  /\ open = <<>>
  /\ nevents = 0
  /\ pc = p
  /\ result = [value |-> NULL, released |-> FALSE]
  /\ last = NoEvent
  /\ io = x

(***************************************************************************)
(* parse_str: the input is a str, bytes or bytearray object of some        *)
(* length, or an object of another type.                                   *)
(***************************************************************************)
StrLengths ==
  {n \in {k * EXPAT_CHUNK_SIZE + d : k \in 0..MaxChunks, d \in (0 - MaxLenVary)..MaxLenVary} :
     n >= 0}

InitStr ==
  \E kind \in {"str", "bytes", "bytearray", "other"}, n \in StrLengths :
    DriverInit("parse_str", [NoIo EXCEPT !.data = [kind |-> kind, len |-> n]])

\* lines 1928-1946: take the bytes of the argument, or fail with TypeError
StrBegin ==
  /\ pc = "parse_str"
  /\ IF io.data.kind = "other"
     THEN DriverStep("str_done", io,
            PyError("TypeError", <<"argument to \"parse_str\" must be an instance of str, bytes or bytearray">>))
     ELSE DriverStep("str_loop", [io EXCEPT !.s = 0, !.len = io.data.len], pyerr)

\* the loop condition of line 1948
parse_str_more(x) == x.len > EXPAT_CHUNK_SIZE

\* parse_str that forgets to advance s
parse_str_advance_len_only(x) == [x EXCEPT !.len = @ - EXPAT_CHUNK_SIZE]

\* lines 1954-1955
parse_str_advance(x) == [x EXCEPT !.s = @ + EXPAT_CHUNK_SIZE, !.len = @ - EXPAT_CHUNK_SIZE]

\* one pass of the loop of lines 1948-1956
StrChunk(status) ==
  /\ pc = "str_loop"
  /\ parse_str_more(io)
  /\ IF status = XML_STATUS_ERROR
     THEN DriverStep("str_done", XML_Parse(io, io.s, EXPAT_CHUNK_SIZE, FALSE),
                     raise_expat_error(Cur, XML_ErrorString_SYNTAX).pyerr)
     ELSE DriverStep("str_loop",
                     parse_str_advance(XML_Parse(io, io.s, EXPAT_CHUNK_SIZE, FALSE)), pyerr)

\* lines 1958-1963: the last feed
StrLast(status) ==
  /\ pc = "str_loop"
  /\ ~parse_str_more(io)
  /\ IF status = XML_STATUS_ERROR
     THEN DriverStep("str_done", XML_Parse(io, io.s, io.len, TRUE),
                     raise_expat_error(Cur, XML_ErrorString_SYNTAX).pyerr)
     ELSE DriverStep("str_done", [XML_Parse(io, io.s, io.len, TRUE) EXCEPT !.r = 0], pyerr)

NextStr ==
  \/ StrBegin
  \/ \E status \in {XML_STATUS_OK, XML_STATUS_ERROR} : StrChunk(status)
  \/ \E status \in {XML_STATUS_OK, XML_STATUS_ERROR} : StrLast(status)

\* parse_str is straight-line code around one loop: it keeps running until it returns
SpecStr == InitStr /\ [][NextStr]_vars /\ WF_vars(NextStr)

(***************************************************************************)
(* parse_file: the source's read method returns bytes of some length       *)
(* (possibly more than asked for), something that is not bytes, or raises; *)
(* it holds at most left non-empty chunks and returns the empty chunk from *)
(* then on.                                                                *)
(***************************************************************************)
ReadOutcomes ==
  { [kind |-> "bytes", n |-> n] :
      n \in {0} \cup (IF io.left > 0 THEN {1, EXPAT_BUFFER_SIZE, EXPAT_BUFFER_SIZE + 1} ELSE {}) }
    \cup (IF io.left > 0 THEN { [kind |-> "not bytes", n |-> 0], [kind |-> "raise", n |-> 0] }
         ELSE {})

\* call_read without the test of the returned length
call_read_any_length(outcome, buf_size) ==
  IF outcome.kind = "raise" THEN [ret |-> -1, err |-> PyError("Exception", <<"raised by read">>)]
  ELSE IF outcome.kind # "bytes"
       THEN [ret |-> -1, err |-> PyError("TypeError", <<"read() did not return a bytes object">>)]
       ELSE [ret |-> outcome.n, err |-> NoError]

\* call_read: the number of bytes copied to the buffer, or -1 with an exception set
call_read(outcome, buf_size) ==
  IF outcome.kind = "raise" THEN [ret |-> -1, err |-> PyError("Exception", <<"raised by read">>)]
  ELSE IF outcome.kind # "bytes"
       THEN [ret |-> -1, err |-> PyError("TypeError", <<"read() did not return a bytes object">>)]
       ELSE IF outcome.n > buf_size
            THEN [ret |-> -1, err |-> PyError("ValueError", <<"read() returned too much data">>)]
            ELSE [ret |-> outcome.n, err |-> NoError]

InitFile ==
  \E n \in 0..MaxReads : DriverInit("parse_file", [NoIo EXCEPT !.left = n])

\* lines 1899-1903: XML_GetBuffer, which returns NULL when out of memory
FileGetBuffer(ok) ==
  /\ pc = "parse_file"
  /\ IF ok THEN DriverStep("file_read", io, pyerr)
     ELSE DriverStep("file_done", io, raise_expat_error(Cur, <<"out of memory">>).pyerr)

\* lines 1905-1906: read(EXPAT_BUFFER_SIZE) through call_read
FileRead(outcome) ==
  /\ pc = "file_read"
  /\ \E res \in {call_read(outcome, EXPAT_BUFFER_SIZE)} :
       \E x \in {[io EXCEPT !.reads = Append(@, [req |-> EXPAT_BUFFER_SIZE,
                                                  kind |-> outcome.kind, n |-> outcome.n]),
                            !.left = IF outcome.kind = "bytes" /\ outcome.n = 0 THEN 0
                                     ELSE @ - 1,
                            !.bytes_read = res.ret]} :
         IF res.ret < 0 THEN DriverStep("file_done", x, res.err)
         ELSE DriverStep("file_feed", x, pyerr)

\* lines 1907-1912: feed what was read, and leave the loop after an empty read
FileFeed(status) ==
  /\ pc = "file_feed"
  /\ \E x \in {XML_ParseBuffer(io, io.bytes_read, io.bytes_read = 0)} :
       IF status = XML_STATUS_ERROR
       THEN DriverStep("file_done", x, raise_expat_error(Cur, XML_ErrorString_SYNTAX).pyerr)
       ELSE IF io.bytes_read # 0 THEN DriverStep("parse_file", x, pyerr)
            ELSE DriverStep("file_done", [x EXCEPT !.r = 0], pyerr)

NextFile ==
  \/ \E ok \in BOOLEAN : FileGetBuffer(ok)
  \/ \E outcome \in ReadOutcomes : FileRead(outcome)
  \/ \E status \in {XML_STATUS_OK, XML_STATUS_ERROR} : FileFeed(status)

\* parse_file keeps running until it returns; read and the tokenizer return
SpecFile == InitFile /\ [][NextFile]_vars /\ WF_vars(NextFile)

(***************************************************************************)
(* The deep-document specification: the document opens STACK_BLOCK_SIZE - 1 *)
(* nested sec elements, which fills the first block of the frame stack,    *)
(* and goes on from there; the allocation of the next block succeeds or    *)
(* fails.                                                                  *)
(***************************************************************************)
DeepAttrs == << <<"id", <<"1">>>> >>
DeepEvents == STACK_BLOCK_SIZE - 1 + MaxDeepEvents

\* a start tag; fails: PyMem_Malloc returns NULL if it is called
DeepStart(name, fails) ==
  /\ CanDeliverWithin(DeepEvents)
  /\ \E s \in {start_element([Cur EXCEPT !.malloc_fails = fails], name, DeepAttrs)} :
     /\ Becomes(s)
     /\ nevents' = nevents + 1
     /\ pc' = IF s.crashed THEN "crashed" ELSE "parsing"
     /\ last' = [ev |-> "start", name |-> name, attrs |-> DeepAttrs, called |-> s.called,
                 nomem |-> s.nomem]
     /\ result' = result
     /\ open' = Append(open, OpenElement(s, name))
     /\ pending' = "none"

\* the first STACK_BLOCK_SIZE - 1 events: one more sec inside the last
Descend == nevents < STACK_BLOCK_SIZE - 1 /\ DeepStart("sec", FALSE)

Descended == nevents >= STACK_BLOCK_SIZE - 1

NextDeep ==
  \/ Descend
  \/ \E name \in {"sec", "name", "x"}, fails \in BOOLEAN : Descended /\ DeepStart(name, fails)
  \/ Descended /\ EndElementWithin(DeepEvents)
  \/ \E str \in TextPieces : Descended /\ CharacterDataWithin(DeepEvents, str)
  \/ ParseAborted
  \/ TokenizerError

SpecDeep == Init /\ [][NextDeep]_vars

(***************************************************************************)
(* Name resolution by minimal perfect hash: the hash_lookup macro and      *)
(* py_field_lookup, instantiated on a table of four names with the salts   *)
(* and the displacement array an offline generator gives for it.  A key is *)
(* a sequence of bytes (of code points for py_field_lookup).  char is      *)
(* signed or unsigned as the build has it.  Reading g or the name table    *)
(* outside its bounds is undefined: the call crashes or goes on with a     *)
(* value that happens to be in memory.                                     *)
(***************************************************************************)
hash_names == << <<97, 98>>, <<98, 97>>, <<99>>, <<97, 98, 99>> >>   \* ab ba c abc
HASH_COUNT == 4
HASH_OTHER == 5
salt1 == <<113, 104, 70>>     \* "qhF"
salt2 == <<87, 67, 69>>       \* "WCE"
salt_length == 3
hash_g == <<2, 0, 4, 3, 0>>
g_length == 5

KeyBytes == {97, 98, 99, 195}
Keys == UNION { [1..n -> KeyBytes] : n \in 0..MaxKeyLen }
GarbageInts == {0 - 7, 0, 3}

\* the int a char holding byte b converts to
CharToInt(b, signed_char) == IF signed_char /\ b > 127 THEN b - 256 ELSE b

\* the % of C, which truncates towards zero
CRem(a, n) == IF a >= 0 THEN a % n ELSE 0 - ((0 - a) % n)

\* the sum the hashing loop leaves in f1 (or f2): over the first salt_length characters
RECURSIVE HashSum(_, _, _, _)
HashSum(salt, key, signed_char, i) ==
  IF i > Len(key) \/ i > salt_length THEN 0
  ELSE salt[i] * CharToInt(key[i], signed_char) + HashSum(salt, key, signed_char, i + 1)

Returns(i) == [ret |-> i, crashed |-> FALSE]
Crashes == [ret |-> 0, crashed |-> TRUE]

\* g[i]: the values the read can give
ReadG(i) == IF i >= 0 /\ i < g_length THEN {hash_g[i + 1]} ELSE GarbageInts

\* the last two statements of the lookup: compare the key with names[i]
HashCompare(key, i) ==
  IF i < HASH_COUNT
  THEN IF i >= 0
       THEN IF hash_names[i + 1] = key THEN {Returns(i)} ELSE {Returns(HASH_OTHER)}
       ELSE {Crashes, Returns(HASH_OTHER)}
  ELSE {Returns(HASH_OTHER)}

\* element_lookup and attribute_lookup (the hash branch of the macro): the set of
\* outcomes of a call
hash_lookup(key, signed_char) ==
  LET f1 == HashSum(salt1, key, signed_char, 1)
      f2 == HashSum(salt2, key, signed_char, 1)
  IN (IF CRem(f1, g_length) < 0 \/ CRem(f2, g_length) < 0 THEN {Crashes} ELSE {})
     \cup UNION { HashCompare(key, CRem(v1 + v2, g_length)) :
                    v1 \in ReadG(CRem(f1, g_length)), v2 \in ReadG(CRem(f2, g_length)) }

py_field_lookup(key) ==
  LET f1 == HashSum(salt1, key, FALSE, 1)
      f2 == HashSum(salt2, key, FALSE, 1)
  IN IF Len(key) > salt_length THEN {Returns(HASH_OTHER)}
     ELSE IF \E i \in 1..Len(key) : key[i] > 127 THEN {Returns(HASH_OTHER)}
     ELSE HashCompare(key, CRem(hash_g[CRem(f1, g_length) + 1] + hash_g[CRem(f2, g_length) + 1],
                                g_length))

InitLookup ==
  \E key \in Keys, signed_char \in BOOLEAN :
    DriverInit("lookup", [key |-> key, signed_char |-> signed_char, fn |-> "none",
                          ret |-> 0, crashed |-> FALSE])

ElementLookup ==
  /\ pc = "lookup"
  /\ \E out \in hash_lookup(io.key, io.signed_char) :
       DriverStep("looked", [io EXCEPT !.fn = "element_lookup", !.ret = out.ret,
                                       !.crashed = out.crashed], pyerr)

PyFieldLookup ==
  /\ pc = "lookup"
  /\ \E out \in py_field_lookup(io.key) :
       DriverStep("looked", [io EXCEPT !.fn = "py_field_lookup", !.ret = out.ret,
                                       !.crashed = out.crashed], pyerr)

NextLookup == ElementLookup \/ PyFieldLookup

SpecLookup == InitLookup /\ [][NextLookup]_vars

(***************************************************************************)
(* Explicit record construction: Node_<type>.__new__ called from Python    *)
(* with a tuple of positional arguments and a dict of keyword arguments.   *)
(* A keyword dict is the sequence of its items in iteration order; its     *)
(* keys are distinct.  A Python list is PyList(items); any other value     *)
(* that is not a frozen list is not iterable.  Types have no base types.   *)
(***************************************************************************)
PyList(items) == <<"list", items>>

list_e(type) == Len(Schema[type].content) > 0
FIELD_COUNT(type) == Schema[type].field_count
func_name(type) == "Node_" \o type \o ".__new__"

\* type.fields(): the attributes, then the children, in declared order
fields(type) == Schema[type].attrs \o Schema[type].children

\* the field names of all types, sorted; PY_FIELD(name) is the enumerator PY_FIELD__name
py_field_names == <<"flag", "id", "lang", "n", "name", "sec", "title">>
PY_FIELD_COUNT == Len(py_field_names)
PY_FIELD_OTHER == PY_FIELD_COUNT + 1
PY_FIELD(name) == CHOOSE i \in 1..PY_FIELD_COUNT : py_field_names[i] = name

\* py_field_lookup by what it returns for a str key: the code of the field name equal
\* to the key, PY_FIELD_OTHER if there is none
py_field_code(key) ==
  IF \E i \in 1..PY_FIELD_COUNT : py_field_names[i] = key THEN PY_FIELD(key) ELSE PY_FIELD_OTHER

PyObject_TypeCheck_frozen_list(s, value) == IsRef(value) /\ s.heap[value[2]].cls = "frozen_list"

\* PyObject_Size: -1 for an object without a length
PyObject_Size(s, o) ==
  CASE o[1] = "list" -> Len(o[2])
    [] PyObject_TypeCheck_frozen_list(s, o) -> Len(s.heap[o[2]].content)
    [] OTHER -> -1

\* what PyObject_GetIter and PyIter_Next deliver
IterItems(s, o) ==
  CASE o[1] = "list" -> o[2]
    [] PyObject_TypeCheck_frozen_list(s, o) -> s.heap[o[2]].content
    [] OTHER -> <<>>

RECURSIVE frozen_list_fill_from(_, _, _, _, _)
frozen_list_fill_from(s, fl, items, i, initial_size) ==
  IF i > Len(items) THEN Ret(s, 0)
  ELSE frozen_list_fill_from(frozen_list_push_object(s, fl, items[i], initial_size), fl, items,
                             i + 1, initial_size)

frozen_list_fill(s, fl, iterable) ==
  LET size == PyObject_Size(s, iterable)
      initial_size == IF size < 0 THEN NODE_LIST_INITIAL_CAPACITY ELSE size
  IN IF initial_size = 0 THEN Ret(s, 0)
     ELSE IF size < 0
          THEN [s EXCEPT !.pyerr = PyError("TypeError", <<"object is not iterable">>),
                         !.ret = -1]
          ELSE frozen_list_fill_from(s, fl, IterItems(s, iterable), 1, initial_size)

raise_dup_field_error(s, name) ==
  [s EXCEPT !.pyerr = PyError("TypeError", <<"received more than one value for", name>>)]
raise_too_many_args_count(s, func, given, maximum) ==
  [s EXCEPT !.pyerr = PyError("TypeError", <<func, "takes at most", ToString(maximum),
                                             "arguments", ToString(given), "were given">>)]
raise_invalid_keyword_arg(s, func, key) ==
  [s EXCEPT !.pyerr = PyError("TypeError", <<func, "does not take the keyword argument", key>>)]
raise_needs_value_arg(s, func, key) ==
  [s EXCEPT !.pyerr = PyError("TypeError", <<func, "called with missing argument:", key>>)]
raise_needs_pos_arg(s, func, i) ==
  [s EXCEPT !.pyerr = PyError("TypeError", <<func, "called with missing positional argument",
                                             ToString(i + 1)>>)]

\* node_set_py_field without the test for a field that already has a value
node_set_py_field_overwrites(s, field, value, name) == Ret(Store(s, field, value), 1)

node_set_py_field(s, field, value, name) ==
  IF Deref(s, field) # NULL
  THEN Ret(raise_dup_field_error(s, name), -1)
  ELSE Ret(Store(s, field, value), 1)

node_set_py_field_frozen_list(s, field, value, name) ==
  LET filled(s1) == Ret(s1, IF s1.ret # 0 THEN -1 ELSE 1)
      created(s1) == filled(frozen_list_fill(Store(s1, field, Ref(s1.ret)), s1.ret, value))
  IN IF Deref(s, field) # NULL
     THEN Ret(raise_dup_field_error(s, name), -1)
     ELSE IF PyObject_TypeCheck_frozen_list(s, value)
          THEN Ret(Store(s, field, value), 1)
          ELSE created(create_frozen_list(s))

\* the switch on the number of positional arguments left after start_i: the label
\* taken is the last field's (default) or the field's whose number is the count, and
\* control falls through from there to the first field
node_class_new_set_fields(s, type, n, args, start_i) ==
  LET count == Len(args) - start_i
      label == IF count < FIELD_COUNT(type) THEN count ELSE FIELD_COUNT(type)
  IN IF count > 0
     THEN [s EXCEPT !.heap[n].fields =
             [f \in 1..FIELD_COUNT(type) |-> IF f <= label THEN args[f + start_i] ELSE @[f]]]
     ELSE s

node_class_new_set_kw_field(s, type, n, field, value) ==
  LET refs == fields(type)
      is_case(i) == PY_FIELD(refs[i].name) = field
  IN IF \E i \in 1..Len(refs) : is_case(i)
     THEN LET i == CHOOSE i \in 1..Len(refs) : is_case(i)
          IN IF i > Len(Schema[type].attrs) /\ refs[i].is_list
             THEN node_set_py_field_frozen_list(s, FieldSlot(n, refs[i].field), value,
                                                refs[i].name)
             ELSE node_set_py_field(s, FieldSlot(n, refs[i].field), value, refs[i].name)
     ELSE Ret(s, 0)

\* node_class_new_fields_end over the references refs, from the i-th on
RECURSIVE node_class_new_fields_end_refs(_, _, _, _, _)
node_class_new_fields_end_refs(s, type, n, refs, i) ==
  IF i > Len(refs) THEN Ret(s, 0)
  ELSE LET ref == refs[i]
           field == FieldSlot(n, ref.field)
           next(s1) == node_class_new_fields_end_refs(s1, type, n, refs, i + 1)
           created(s1) == next(Store(s1, field, Ref(s1.ret)))
           missing == Ret(raise_needs_value_arg(s, func_name(type), ref.name), -1)
       IN IF Deref(s, field) # NULL THEN next(s)
          ELSE IF "optional" \in DOMAIN ref
               THEN IF ref.optional THEN next(Store(s, field, Py_None)) ELSE missing
               ELSE IF ref.is_list THEN created(create_frozen_list(s))
                    ELSE IF ref.min_items = 0 THEN next(Store(s, field, Py_None))
                         ELSE missing

\* node_class_new_fields_end that handles the attributes and leaves the children
node_class_new_fields_end_attributes_only(s, type, n) ==
  node_class_new_fields_end_refs(s, type, n, Schema[type].attrs, 1)

node_class_new_fields_end(s, type, n) ==
  node_class_new_fields_end_refs(s, type, n, fields(type), 1)

\* node_class_tp_new up to the keyword loop: ret is the new object, 0 if NULL was
\* returned
node_class_tp_new_args(s, type, args, kw_arg_count) ==
  LET p_arg_count == Len(args)
      maximum == FIELD_COUNT(type) + (IF list_e(type) THEN 1 ELSE 0)
      set(s1, n) == IF FIELD_COUNT(type) > 0
                    THEN Ret(node_class_new_set_fields(s1, type, n, args,
                                                       IF list_e(type) THEN 1 ELSE 0), n)
                    ELSE Ret(s1, n)
      filled(s1, n) == IF s1.ret # 0 THEN Ret(s1, 0) ELSE set(s1, n)
      allocated(s1) == IF list_e(type)
                       THEN filled(frozen_list_fill(s1, s1.ret, args[1]), s1.ret)
                       ELSE set(s1, s1.ret)
  IN IF p_arg_count + kw_arg_count > maximum
     THEN Ret(raise_too_many_args_count(s, func_name(type), p_arg_count + kw_arg_count,
                                        maximum), 0)
     ELSE IF list_e(type) /\ p_arg_count < 1
          THEN Ret(raise_needs_pos_arg(s, func_name(type), 0), 0)
          ELSE IF list_e(type)
               THEN allocated(create_node_list_common(s, type, FIELD_COUNT(type)))
               ELSE allocated(create_node_tagonly_common(s, type, FIELD_COUNT(type)))

\* one turn of the PyDict_Next loop: ret 1 to go on, 0 if NULL was returned
node_class_tp_new_keyword(s, type, n, key, value) ==
  LET set(s1) == IF s1.ret < 0 THEN Ret(s1, 0)
                 ELSE IF s1.ret = 0
                      THEN Ret(raise_invalid_keyword_arg(s1, func_name(type), key), 0)
                      ELSE Ret(s1, 1)
  IN set(node_class_new_set_kw_field(s, type, n, py_field_code(key), value))

NewTypes == {"DocType", "SecType", "ParaType", "TabType"}
KwKeys == {"id", "sec", "name", "n", "zz"}
KwValues == {<<"int", 11>>, Ref(1), PyList(<< <<"int", 7>>, <<"int", 8>> >>)}
ContentArgs == {PyList(<<>>), PyList(<<Str(<<"a">>)>>), <<"int", 0>>}
KwItems == KwKeys \X KwValues
KwDicts ==
  {kwds \in UNION {[1..k -> KwItems] : k \in 0..MaxKw} :
     \A i, j \in 1..Len(kwds) : i # j => kwds[i][1] # kwds[j][1]}
MaxArgs(type) == FIELD_COUNT(type) + (IF list_e(type) THEN 1 ELSE 0) + MaxExtraArgs
PosArgs(type, p, content) ==
  [i \in 1..p |-> IF list_e(type) /\ i = 1 THEN content ELSE <<"int", i>>]

\* the heap holds one frozen list the caller made before the call
InitNew ==
  /\ block = 1
  /\ block_used = 0
  /\ nblocks = 1
  /\ stackmem = << <<>> >>
  /\ shadow = <<>>
  /\ ignore_level = 0
  /\ heap = << [Obj("frozen_list", "", <<>>) EXCEPT !.content = << <<"int", 9>> >>,
                                                   !.capacity = 1] >>
  /\ r_obj = NULL
  /\ pyerr = NoError
  /\ warnings = <<>>
  /\ escalate = FALSE
  /\ stopped = FALSE
  /\ pending = "none"
  /\ open = <<>>
  /\ nevents = 0
  /\ pc = "tp_new"
  /\ result = [value |-> NULL, released |-> FALSE]
  /\ last = NoEvent
  /\ \E type \in NewTypes, kwds \in KwDicts, content \in ContentArgs :
       \E p \in 0..MaxArgs(type) :
         /\ (list_e(type) /\ p > 0) \/ content = PyList(<<>>)
         /\ io = [type |-> type, args |-> PosArgs(type, p, content), kwds |-> kwds,
                  pos |-> 0, n |-> 0]

\* a step of node_class_tp_new: s is the state it leaves, r what it returned if it
\* returned
NewBecomes(s, newpc, x, r) ==
  /\ heap' = s.heap
  /\ pyerr' = s.pyerr
  /\ pc' = newpc
  /\ io' = x
  /\ result' = [value |-> r, released |-> FALSE]
  /\ UNCHANGED <<block, block_used, nblocks, stackmem, shadow, ignore_level, r_obj, warnings,
                 escalate, stopped, pending, open, nevents, last>>

TpNewArgs ==
  /\ pc = "tp_new"
  /\ \E s \in {node_class_tp_new_args(Cur, io.type, io.args, Len(io.kwds))} :
       IF s.ret = 0 THEN NewBecomes(s, "returned", io, NULL)
       ELSE IF FIELD_COUNT(io.type) = 0
            THEN NewBecomes(s, "returned", [io EXCEPT !.n = s.ret], Ref(s.ret))
            ELSE NewBecomes(s, "kwds", [io EXCEPT !.n = s.ret], NULL)

TpNewKeyword ==
  /\ pc = "kwds"
  /\ io.pos < Len(io.kwds)
  /\ \E s \in {node_class_tp_new_keyword(Cur, io.type, io.n, io.kwds[io.pos + 1][1],
                                         io.kwds[io.pos + 1][2])} :
       IF s.ret = 0 THEN NewBecomes(s, "returned", [io EXCEPT !.pos = @ + 1], NULL)
       ELSE NewBecomes(s, "kwds", [io EXCEPT !.pos = @ + 1], NULL)

TpNewFieldsEnd ==
  /\ pc = "kwds"
  /\ io.pos = Len(io.kwds)
  /\ \E s \in {node_class_new_fields_end(Cur, io.type, io.n)} :
       IF s.ret # 0 THEN NewBecomes(s, "returned", io, NULL)
       ELSE NewBecomes(s, "returned", io, Ref(io.n))

NextNew == TpNewArgs \/ TpNewKeyword \/ TpNewFieldsEnd

SpecNew == InitNew /\ [][NextNew]_vars

(***************************************************************************)
(* Iteration over a frozen list from Python.  A frozen_list_itr is a heap  *)
(* object whose fields are <<i, fl>>: the index of the next element and    *)
(* the list, or NULL.  The heap starts with one frozen list, object 1;     *)
(* every later object is an iterator.  io.got[c] is what the calls of      *)
(* next on iterator c have returned so far, NULL for exhaustion.           *)
(***************************************************************************)
ITR_I == 1
ITR_FL == 2

frozen_list_tp_iter(s, self) ==
  LET created(s1) == IF Len(s1.heap[self].content) # 0
                     THEN Store(s1, FieldSlot(s1.ret, ITR_FL), Ref(self))
                     ELSE s1
  IN created(Alloc(s, Obj("frozen_list_itr", "", <<0, NULL>>)))

\* frozen_list_itr_tp_next that starts over at the end of the list
frozen_list_itr_tp_next_starts_over(s, self) ==
  LET itr == s.heap[self]
      fl == s.heap[itr.fields[ITR_FL][2]]
      i == itr.fields[ITR_I]
  IN IF itr.fields[ITR_FL] = NULL THEN Ret(s, NULL)
     ELSE Ret(Store(s, FieldSlot(self, ITR_I), IF i + 1 = Len(fl.content) THEN 0 ELSE i + 1),
              fl.content[i + 1])

\* ret is the element returned, NULL for exhaustion; content[i] of C is content[i + 1]
frozen_list_itr_tp_next(s, self) ==
  LET itr == s.heap[self]
      fl == s.heap[itr.fields[ITR_FL][2]]
      i == itr.fields[ITR_I]
      cleared(s1) == IF i + 1 = Len(fl.content)
                     THEN Store(s1, FieldSlot(self, ITR_FL), NULL)
                     ELSE s1
  IN IF itr.fields[ITR_FL] = NULL THEN Ret(s, NULL)
     ELSE IF ~(i < Len(fl.content)) THEN [s EXCEPT !.crashed = TRUE]
          ELSE Ret(cleared(Store(s, FieldSlot(self, ITR_I), i + 1)), fl.content[i + 1])

frozen_list_itr_length_hint(s, self) ==
  LET itr == s.heap[self]
  IN IF itr.fields[ITR_FL] = NULL THEN Ret(s, 0)
     ELSE Ret(s, Len(s.heap[itr.fields[ITR_FL][2]].content) - itr.fields[ITR_I])

Element(j) == <<"int", j>>
Cursors == 2..Len(heap)

InitIter ==
  /\ block = 1
  /\ block_used = 0
  /\ nblocks = 1
  /\ stackmem = << <<>> >>
  /\ shadow = <<>>
  /\ ignore_level = 0
  /\ \E n \in 0..MaxListLen :
       heap = << [Obj("frozen_list", "", <<>>) EXCEPT !.content = [j \in 1..n |-> Element(j)],
                                                     !.capacity = NODE_LIST_INITIAL_CAPACITY] >>
  /\ r_obj = NULL
  /\ pyerr = NoError
  /\ warnings = <<>>
  /\ escalate = FALSE
  /\ stopped = FALSE
  /\ pending = "none"
  /\ open = <<>>
  /\ nevents = 0
  /\ pc = "iterating"
  /\ result = [value |-> NULL, released |-> FALSE]
  /\ last = NoEvent
  /\ io = [got |-> << <<>> >>]

IterBecomes(s, ev, self, x) ==
  /\ heap' = s.heap
  /\ pc' = IF s.crashed THEN "crashed" ELSE pc
  /\ last' = [NoEvent EXCEPT !.ev = ev, !.name = ToString(self)]
  /\ io' = x
  /\ UNCHANGED <<block, block_used, nblocks, stackmem, shadow, ignore_level, r_obj, pyerr,
                 warnings, escalate, stopped, pending, open, nevents, result>>

\* iter(list)
Iter ==
  /\ pc = "iterating"
  /\ Len(heap) < 1 + MaxCursors
  /\ IterBecomes(frozen_list_tp_iter(Cur, 1), "iter", Len(heap) + 1,
                 [io EXCEPT !.got = Append(@, <<>>)])

\* next(c)
ItrNext(c) ==
  /\ pc = "iterating"
  /\ Len(io.got[c]) < Len(heap[1].content) + MaxExtraNext
  /\ \E s \in {frozen_list_itr_tp_next(Cur, c)} :
       IterBecomes(s, "next", c, [io EXCEPT !.got[c] = Append(@, s.ret)])

\* c.__length_hint__(): the hint is recorded as the event's called field
ItrLengthHint(c) ==
  /\ pc = "iterating"
  /\ \E s \in {frozen_list_itr_length_hint(Cur, c)} :
       /\ last' = [NoEvent EXCEPT !.ev = "length_hint", !.name = ToString(c),
                                   !.called = ToString(s.ret)]
       /\ UNCHANGED <<block, block_used, nblocks, stackmem, shadow, ignore_level, heap, r_obj,
                      pyerr, warnings, escalate, stopped, pending, open, nevents, pc, result,
                      io>>

NextIter ==
  \/ Iter
  \/ \E c \in Cursors : ItrNext(c)
  \/ \E c \in Cursors : ItrLengthHint(c)

SpecIter == InitIter /\ [][NextIter]_vars

(***************************************************************************)
(* The frame-stack specification: push_callbacks and pop_callbacks alone,  *)
(* from the empty stack of a fresh parse_state, deep enough to cross a     *)
(* block boundary.  shadow is the abstract stack the frames should form.   *)
(* The frame pushed at a depth below the boundary is fixed; at and around  *)
(* the boundary it is one of two.                                          *)
(***************************************************************************)
StackFrame(d, k) == Frame(FieldSlot(d, k), NullCall, NullCall, NullCall)
StackChoices(d) == IF d + MaxStackVary > STACK_BLOCK_SIZE THEN {1, 2} ELSE {1}

InitStack ==
  /\ block = 1
  /\ block_used = 0
  /\ nblocks = 1
  /\ stackmem = << <<>> >>
  /\ shadow = <<>>
  /\ ignore_level = 0
  /\ heap = <<>>
  /\ r_obj = NULL
  /\ pyerr = NoError
  /\ warnings = <<>>
  /\ escalate = FALSE
  /\ stopped = FALSE
  /\ pending = "none"
  /\ open = <<>>
  /\ nevents = 0
  /\ pc = "stack"
  /\ result = [value |-> NULL, released |-> FALSE]
  /\ last = NoEvent
  /\ io = NoIo

StackBecomes(s) ==
  /\ block' = s.block
  /\ block_used' = s.block_used
  /\ nblocks' = s.nblocks
  /\ stackmem' = s.stackmem
  /\ io' = io
  /\ UNCHANGED <<ignore_level, heap, r_obj, pyerr, warnings, escalate, stopped, pending,
                 open, nevents, pc, result>>

\* push_callbacks and the caller's stores into the frame; the malloc of a new block
\* may fail, and then nothing is pushed
Push(k, fails) ==
  /\ pc = "stack"
  /\ Len(shadow) < STACK_BLOCK_SIZE + MaxStackOver
  /\ \E s \in {push_callbacks([Cur EXCEPT !.malloc_fails = fails])} :
       IF s.ret = 0
       THEN /\ StackBecomes(s)
            /\ shadow' = shadow
            /\ last' = [NoEvent EXCEPT !.ev = "push failed"]
       ELSE /\ StackBecomes(SetFrame(s, StackFrame(Len(shadow) + 1, k)))
            /\ shadow' = Append(shadow, StackFrame(Len(shadow) + 1, k))
            /\ last' = [NoEvent EXCEPT !.ev = "push"]

Pop ==
  /\ pc = "stack"
  /\ Len(shadow) > 0
  /\ StackBecomes(pop_callbacks(Cur))
  /\ shadow' = SubSeq(shadow, 1, Len(shadow) - 1)
  /\ last' = [NoEvent EXCEPT !.ev = "pop"]

NextStack ==
  \/ \E k \in StackChoices(Len(shadow) + 1), fails \in BOOLEAN : Push(k, fails)
  \/ Pop

SpecStack == InitStack /\ [][NextStack]_vars

(***************************************************************************)
(* Properties.  Shared vocabulary first: the frame at a depth, what the    *)
(* schema says a frame's element recognizes, and what a step delivered.    *)
(***************************************************************************)
\* the frame at depth i (1 = bottom), by block and index within the block
FrameAt(i) ==
  stackmem[((i - 1) \div STACK_BLOCK_SIZE) + 1][((i - 1) % STACK_BLOCK_SIZE) + 1]

\* the schema type a frame's element accepts children of, "" for a leaf or no frame
ChildRefs(frame) ==
  IF frame.cs_call.fn = "node_class_child_start" THEN Schema[frame.cs_call.type].children
  ELSE <<>>

\* the content of the frame's type: the fields of its tuple rows or its item kinds
ContentRefs(frame) ==
  IF frame.cs_call.fn = "node_class_child_start" THEN Schema[frame.cs_call.type].content
  ELSE <<>>

IsChildName(frame, name) == \E i \in 1..Len(ChildRefs(frame)) : ChildRefs(frame)[i].name = name
IsContentName(frame, name) ==
  \E i \in 1..Len(ContentRefs(frame)) : ContentRefs(frame)[i].name = name

Recognizes(frame, name) ==
  IF frame.cs_call.fn = "toplevel_start" THEN name \in DOMAIN root_elements
  ELSE IsChildName(frame, name) \/ IsContentName(frame, name)

\* this step delivered one callback and the process survived it
EventStep == pc = "parsing" /\ nevents' = nevents + 1 /\ pc' = "parsing"

FramedCount(n) == Cardinality({i \in 1..n : open[i].framed})

\* C1 (as stated): parse ends in exactly one of two outcomes, a value with no error
\* pending or an error with no value, and once a handler has stopped the parser or the
\* tokenizer has reported an error no value is returned and the partial root is released.
C1_ExactlyOneOutcome ==
  /\ pc # "crashed"
  /\ pc = "done" =>
       /\ \/ result.value # NULL /\ pyerr = NoError
          \/ result.value = NULL /\ pyerr # NoError
       /\ (stopped \/ pyerr.lineno = "error line") =>
            /\ result.value = NULL
            /\ r_obj # NULL => result.released

\* C2 (as stated): once a handler has stopped the parser no further event reaches a
\* handler of the frame stack, and no frame is pushed or popped.
C2_NoEventAfterHardError ==
  [][ (pc = "parsing" /\ stopped) =>
        /\ ~(nevents' = nevents + 1 /\ last'.called # "none")
        /\ block' = block /\ block_used' = block_used /\ stackmem' = stackmem ]_vars

\* C3: the frame stack is last-in first-out at every depth, across block boundaries:
\* the stack holds exactly the frames pushed and not yet popped, each frame below the
\* top still holds what was stored in it, and the top is the most recent of them; a
\* push that cannot allocate changes nothing.
C3_StackIsLIFO ==
  pc = "stack" =>
    /\ Depth(Cur) = Len(shadow)
    /\ block \in 1..nblocks /\ nblocks = Len(stackmem)
    /\ \A i \in 1..Len(shadow) : FrameAt(i) = shadow[i]
    /\ Len(shadow) > 0 =>
         StackNonEmpty(Cur) /\ top_callbacks(Cur) = shadow[Len(shadow)]

\* the stack went past the block boundary and has popped back into the first block,
\* whose last frame is then the top again
C3_Witness ==
  /\ pc = "stack"
  /\ last.ev = "pop"
  /\ nblocks = 2
  /\ Len(shadow) = STACK_BLOCK_SIZE
  /\ top_callbacks(Cur) = StackFrame(STACK_BLOCK_SIZE, 2)

\* C4: while parsing has not been stopped, the depth of the frame stack is one (the
\* root frame) plus the number of open elements whose start pushed a frame, and each
\* such element's frame sits at its own depth, untouched, until its end pops it.
C4_DepthMatchesOpenElements ==
  (pc = "parsing" /\ ~stopped) =>
    /\ Depth(Cur) = 1 + FramedCount(Len(open))
    /\ \A i \in 1..Len(open) :
         open[i].framed => FrameAt(1 + FramedCount(i)) = open[i].frame

\* a recognized element nested two deep has just ended and popped its frame
C4_Witness ==
  /\ pc = "parsing" /\ ~stopped
  /\ last.ev = "end" /\ last.called = "f_call"
  /\ Len(open) = 2 /\ FramedCount(2) = 2
  /\ Depth(Cur) = 3

\* C5: with warnings not escalated, a start event for an element the current frame
\* does not recognize emits exactly one "unexpected element" warning, adds nothing to
\* any value and does not stop the parse; every event inside the ignored subtree
\* emits no warning and changes no value.
C5_UnknownElementWarnsOnce ==
  [][ (EventStep /\ ~escalate /\ ~stopped /\ StackNonEmpty(Cur)) =>
        /\ (last'.ev = "start" /\ ignore_level = 0
              /\ ~Recognizes(top_callbacks(Cur), last'.name)) =>
             /\ warnings' = Append(warnings, <<"unexpected element", last'.name>>)
             /\ heap' = heap /\ r_obj' = r_obj
             /\ ~stopped' /\ pyerr' = pyerr
        /\ ignore_level > 0 =>
             /\ warnings' = warnings
             /\ heap' = heap /\ r_obj' = r_obj
             /\ ~stopped' /\ pyerr' = pyerr ]_vars

\* an unrecognized element inside a recognized one was warned about once, and a
\* descendant of it has started and ended without another warning
C5_Witness ==
  /\ pc = "parsing" /\ ~escalate /\ ~stopped
  /\ last.ev = "end" /\ ignore_level = 1
  /\ Len(open) = 2 /\ open[1].framed /\ open[2].name = "x"
  /\ warnings = << <<"unexpected element", "x">> >>

\* the number of open elements at the end of the open list that pushed no frame
RECURSIVE TrailingUnframed(_)
TrailingUnframed(n) ==
  IF n = 0 \/ open[n].framed THEN 0 ELSE 1 + TrailingUnframed(n - 1)

\* C6: ignore_level is never negative and, while parsing has not been stopped, equals
\* the number of open elements of the ignored subtree; while it is positive, start
\* events add one, end events subtract one, character data leaves it alone, and no
\* frame is pushed or popped, so that the frame on top when it returns to 0 is the
\* frame the unrecognized element's start was delivered to.
C6_IgnoreLevelCountsSubtree ==
  /\ [](ignore_level >= 0)
  /\ []((pc = "parsing" /\ ~stopped) =>
          /\ ignore_level = TrailingUnframed(Len(open))
          /\ \A i \in 1..Len(open) :
               ~open[i].framed => StackNonEmpty(Cur) /\ top_callbacks(Cur) = open[i].frame)
  /\ [][ (EventStep /\ ignore_level > 0) =>
           /\ ignore_level' = CASE last'.ev = "start" -> ignore_level + 1
                                [] last'.ev = "end" -> ignore_level - 1
                                [] OTHER -> ignore_level
           /\ block' = block /\ block_used' = block_used /\ stackmem' = stackmem
           /\ last'.called = "none" ]_vars

\* after an ignored subtree two levels deep has closed, the next sibling is recognized
\* by the same parent and pushes its frame
C6_Witness ==
  /\ pc = "parsing" /\ ~stopped /\ ignore_level = 0
  /\ nevents = MaxEvents
  /\ last.ev = "start" /\ last.called = "cs_call"
  /\ Len(open) = 1 /\ open[1].framed
  /\ warnings = << <<"unexpected element", "x">> >>

(***************************************************************************)
(* Vocabulary for element starts: the child reference the top frame's type *)
(* has for a name, whether a start reaches node_class_start of a type, and *)
(* what an attribute list supplies.                                        *)
(***************************************************************************)
ChildRefFor(frame, name) ==
  ChildRefs(frame)[CHOOSE i \in 1..Len(ChildRefs(frame)) : ChildRefs(frame)[i].name = name]

\* the field slot of the top frame's node for a child reference
ParentField(cref) == FieldSlot(Deref(Cur, top_callbacks(Cur).value)[2], cref.field)

\* this step delivered a start event that the top frame recognizes at ignore_level 0
RecognizedStart ==
  /\ EventStep /\ last'.ev = "start" /\ ignore_level = 0 /\ StackNonEmpty(Cur)
  /\ Recognizes(top_callbacks(Cur), last'.name)

\* the recognized start is of a singular child whose field is already occupied
OccupiedSingular ==
  /\ top_callbacks(Cur).cs_call.fn = "node_class_child_start"
  /\ IsChildName(top_callbacks(Cur), last'.name)
  /\ ~ChildRefFor(top_callbacks(Cur), last'.name).is_list
  /\ Deref(Cur, ParentField(ChildRefFor(top_callbacks(Cur), last'.name))) # NULL

\* this step ran node_class_start of type T
StartsClass(T) ==
  /\ RecognizedStart
  /\ IF top_callbacks(Cur).cs_call.fn = "toplevel_start"
     THEN root_elements[last'.name] = T
     ELSE /\ IsChildName(top_callbacks(Cur), last'.name)
          /\ ChildRefFor(top_callbacks(Cur), last'.name).type = T
          /\ ~OccupiedSingular

\* the node the start created
NewNode == CHOOSE n \in (Len(heap) + 1)..Len(heap') : heap'[n].cls = "node"

\* the warnings this step emitted
NewWarnings == SubSeq(warnings', Len(warnings) + 1, Len(warnings'))

Occurrences(attrs, name) == {i \in 1..Len(attrs) : attrs[i][1] = name}
FirstValue(attrs, name) ==
  attrs[CHOOSE i \in Occurrences(attrs, name) : \A j \in Occurrences(attrs, name) : i <= j][2]
KnownAttr(T, name) == \E i \in 1..Len(Schema[T].attrs) : Schema[T].attrs[i].name = name
ValueOf(ref, text) ==
  IF ref.type = "DoxBool" THEN (IF text = yes THEN Py_True ELSE Py_False) ELSE Str(text)

\* every value is one its attribute's type accepts, and no warning the list causes is
\* turned into an exception
AttrsAccepted(T, attrs) ==
  /\ \A i \in 1..Len(attrs), r \in 1..Len(Schema[T].attrs) :
       (Schema[T].attrs[r].name = attrs[i][1] /\ Schema[T].attrs[r].type = "DoxBool")
         => attrs[i][2] \in {yes, no}
  /\ escalate =>
       /\ \A r \in 1..Len(Schema[T].attrs) :
            Cardinality(Occurrences(attrs, Schema[T].attrs[r].name)) <= 1
       /\ Schema[T].other_attr = "error" => \A i \in 1..Len(attrs) : KnownAttr(T, attrs[i][1])

\* the required attributes of T, by position, that the list does not supply
MissingRequired(T, attrs) ==
  {r \in 1..Len(Schema[T].attrs) :
     ~Schema[T].attrs[r].optional /\ Occurrences(attrs, Schema[T].attrs[r].name) = {}}

\* C7: when the attributes of an element start have been processed without failure, a
\* required attribute that was not supplied stops the parse with the error "missing
\* attribute" naming it (the first in declared order) and no frame is pushed; otherwise
\* the element gets its frame and every optional attribute that was not supplied has
\* its field set to None.
C7_RequiredAndOptionalAttributes ==
  [][ \A T \in DOMAIN Schema :
        (StartsClass(T) /\ AttrsAccepted(T, last'.attrs)) =>
          IF MissingRequired(T, last'.attrs) # {}
          THEN /\ stopped'
               /\ pyerr' = ParseError(
                    <<"missing attribute",
                      Schema[T].attrs[CHOOSE r \in MissingRequired(T, last'.attrs) :
                         \A q \in MissingRequired(T, last'.attrs) : r <= q].name>>,
                    "current")
               /\ block' = block /\ block_used' = block_used /\ stackmem' = stackmem
          ELSE /\ ~stopped'
               /\ Depth(Cur)' = Depth(Cur) + 1
               /\ \A r \in 1..Len(Schema[T].attrs) :
                    (Schema[T].attrs[r].optional
                       /\ Occurrences(last'.attrs, Schema[T].attrs[r].name) = {})
                      => heap'[NewNode].fields[Schema[T].attrs[r].field] = Py_None ]_vars

\* a sec start without attributes: the optional flag was set to None, then the
\* required id was found missing, the parse stopped and only the root frame remains
C7_Witness ==
  /\ pc = "parsing" /\ stopped
  /\ last.ev = "start" /\ last.name = "sec" /\ last.attrs = <<>>
  /\ pyerr = ParseError(<<"missing attribute", "id">>, "current")
  /\ heap[2].type = "SecType" /\ heap[2].fields[1] = Py_None
  /\ Depth(Cur) = 1

\* C8: without warning escalation, an attribute of the element's type supplied k >= 1
\* times on one start emits exactly k-1 "duplicate attribute" warnings naming it, its
\* field holds the value of the first occurrence, and duplicates do not stop the
\* parse (only a missing required attribute does).
C8_DuplicateAttributeKeepsFirst ==
  [][ \A T \in DOMAIN Schema :
        (StartsClass(T) /\ ~escalate /\ AttrsAccepted(T, last'.attrs)) =>
          /\ SubSeq(warnings', 1, Len(warnings)) = warnings
          /\ stopped' <=> MissingRequired(T, last'.attrs) # {}
          /\ \A r \in 1..Len(Schema[T].attrs) :
               LET ref == Schema[T].attrs[r]
                   k == Cardinality(Occurrences(last'.attrs, ref.name))
               IN k >= 1 =>
                    /\ Cardinality({j \in 1..Len(NewWarnings) :
                          NewWarnings[j] = <<"duplicate attribute", ref.name>>}) = k - 1
                    /\ heap'[NewNode].fields[ref.field]
                         = ValueOf(ref, FirstValue(last'.attrs, ref.name)) ]_vars

\* id supplied three times with two different values: two warnings, the first value
\* kept, the element started
C8_Witness ==
  /\ pc = "parsing" /\ ~stopped /\ ~escalate
  /\ last.ev = "start" /\ last.name = "doc"
  /\ last.attrs = << <<"id", <<"1">>>>, <<"id", <<"2">>>>, <<"id", <<"2">>>> >>
  /\ warnings = << <<"duplicate attribute", "id">>, <<"duplicate attribute", "id">> >>
  /\ heap[2].fields[1] = Str(<<"1">>)
  /\ Depth(Cur) = 2

\* C9 (as stated): an attribute the element's type does not declare is a hard error
\* that stops the parse under the "error" policy; under the other policy an
\* "unexpected attribute" warning naming it is emitted and the parse is not stopped
\* because of it.
C9_UnrecognizedAttributePolicy ==
  [][ \A T \in DOMAIN Schema :
        (StartsClass(T) /\ AttrsAccepted(T, last'.attrs)) =>
          \A i \in 1..Len(last'.attrs) :
            ~KnownAttr(T, last'.attrs[i][1]) =>
              IF Schema[T].other_attr = "error"
              THEN stopped' /\ pyerr'.cls = "ParseError"
              ELSE /\ \E j \in 1..Len(NewWarnings) :
                        NewWarnings[j] = <<"unexpected attribute", last'.attrs[i][1]>>
                   /\ stopped' <=> MissingRequired(T, last'.attrs) # {} ]_vars

\* C10: the start of a recognized singular child whose field of the parent already
\* holds a value stops the parse with the error "cannot appear more than once in this
\* context" naming the child; no value changes, so the earlier one is kept, and no
\* frame is pushed.
C10_DuplicateSingularChild ==
  [][ (RecognizedStart /\ OccupiedSingular) =>
        /\ stopped'
        /\ pyerr' = ParseError(<<"cannot appear more than once in this context", last'.name>>,
                               "current")
        /\ heap' = heap /\ r_obj' = r_obj
        /\ block' = block /\ block_used' = block_used /\ stackmem' = stackmem ]_vars

\* a second title inside doc, after the first has ended with its text stored
C10_Witness ==
  /\ pc = "parsing" /\ stopped
  /\ last.ev = "start" /\ last.name = "title"
  /\ pyerr = ParseError(<<"cannot appear more than once in this context", "title">>, "current")
  /\ Len(open) = 2 /\ open[1].name = "doc" /\ ~open[2].framed
  /\ heap[2].fields[3] = Str(<<"a">>)
  /\ Depth(Cur) = 2

(***************************************************************************)
(* Vocabulary for element ends: the step that ran the finish handler of a  *)
(* class element, its node and its type.                                   *)
(***************************************************************************)
FinishStep ==
  /\ EventStep /\ last'.ev = "end" /\ ignore_level = 0 /\ StackNonEmpty(Cur)
  /\ top_callbacks(Cur).f_call.fn = "node_class_finish"

FinishType == top_callbacks(Cur).f_call.type
FinishNode == Deref(Cur, top_callbacks(Cur).value)[2]

\* the required children of T, by position, that node n lacks
LackingChildren(T, n) ==
  {r \in 1..Len(Schema[T].children) :
     /\ Schema[T].children[r].min_items > 0
     /\ IF Schema[T].children[r].is_list
        THEN heap[heap[n].fields[Schema[T].children[r].field][2]].content = <<>>
        ELSE heap[n].fields[Schema[T].children[r].field] = NULL}

FirstLacking(T, n) ==
  Schema[T].children[CHOOSE r \in LackingChildren(T, n) :
                       \A q \in LackingChildren(T, n) : r <= q]

\* C11: at an element's end event, a required singular child that never appeared stops
\* the parse with the error "missing child" naming it, and a required repeated child
\* with no occurrence stops the parse with the different error "at least one child is
\* required" naming it (the first such child in declared order decides).
C11_MissingRequiredChild ==
  [][ (FinishStep /\ LackingChildren(FinishType, FinishNode) # {}) =>
        /\ stopped'
        /\ pyerr' = ParseError(
             << IF FirstLacking(FinishType, FinishNode).is_list
                THEN "at least one child is required" ELSE "missing child",
                FirstLacking(FinishType, FinishNode).name >>,
             "current") ]_vars

\* a doc element closed without any name child
C11_Witness ==
  /\ pc = "parsing" /\ stopped
  /\ last.ev = "end" /\ last.called = "f_call"
  /\ pyerr = ParseError(<<"at least one child is required", "name">>, "current")
  /\ heap[2].type = "DocType" /\ heap[heap[2].fields[5][2]].content = <<>>

\* C12: when an element's end event completes without error every field of its node
\* holds a value: fields set before keep their value, an absent optional singular
\* child becomes None, a repeated child's field is its list; and no object of a
\* returned tree has an unset field or an unfilled list entry.
C12_NoUnsetFieldAfterFinish ==
  /\ [][ (FinishStep /\ ~stopped /\ ~stopped') =>
           \A i \in 1..Schema[FinishType].field_count :
             /\ heap'[FinishNode].fields[i] # NULL
             /\ heap[FinishNode].fields[i] # NULL =>
                  heap'[FinishNode].fields[i] = heap[FinishNode].fields[i]
             /\ heap[FinishNode].fields[i] = NULL =>
                  heap'[FinishNode].fields[i] = Py_None
             /\ \A r \in 1..Len(Schema[FinishType].children) :
                  (Schema[FinishType].children[r].field = i
                     /\ Schema[FinishType].children[r].is_list)
                    => /\ IsRef(heap'[FinishNode].fields[i])
                       /\ heap'[heap'[FinishNode].fields[i][2]].cls = "frozen_list" ]_vars
  /\ []((pc = "done" /\ result.value # NULL) =>
          \A o \in 1..Len(heap) :
            /\ \A i \in 1..Len(heap[o].fields) : heap[o].fields[i] # NULL
            /\ \A i \in 1..Len(heap[o].content) : heap[o].content[i] # NULL)

\* a doc with one name child was returned: lang and title are None, the sec list is
\* empty
C12_Witness ==
  /\ pc = "done" /\ result.value = Ref(1) /\ pyerr = NoError
  /\ heap[2].type = "DocType"
  /\ heap[2].fields[2] = Py_None /\ heap[2].fields[3] = Py_None
  /\ heap[heap[2].fields[4][2]].content = <<>>
  /\ heap[heap[2].fields[5][2]].content = <<Str(<<"a">>)>>

(***************************************************************************)
(* Vocabulary for repeated children: the step that starts an occurrence of *)
(* one, and the list it goes to.                                           *)
(***************************************************************************)
ListChildStart ==
  /\ RecognizedStart
  /\ top_callbacks(Cur).cs_call.fn = "node_class_child_start"
  /\ IsChildName(top_callbacks(Cur), last'.name)
  /\ ChildRefFor(top_callbacks(Cur), last'.name).is_list

\* the list of the repeated child being started
ChildList == Deref(Cur, ParentField(ChildRefFor(top_callbacks(Cur), last'.name)))[2]

FrozenLists == {o \in 1..Len(heap) : heap[o].cls = "frozen_list"}

\* C13: each occurrence of a repeated child adds exactly one slot at the end of the
\* child's list and builds its value in that slot; no other event changes the length
\* of a list, and an entry changes only while the element built in it is the open
\* element on top of the stack; when the parent closes without error no entry of its
\* lists is an unfilled placeholder.  So the list has one entry per occurrence, in
\* document order.
C13_RepeatedChildAppends ==
  /\ [][ (ListChildStart /\ ~stopped') =>
           /\ Len(heap'[ChildList].content) = Len(heap[ChildList].content) + 1
           /\ stackmem'[block'][block_used'].value
                = ContentSlot(ChildList, Len(heap[ChildList].content) + 1) ]_vars
  /\ [][ EventStep =>
           \A fl \in FrozenLists :
             /\ Len(heap'[fl].content) # Len(heap[fl].content) =>
                  ListChildStart /\ fl = ChildList
             /\ Len(heap'[fl].content) >= Len(heap[fl].content)
             /\ \A i \in 1..Len(heap[fl].content) :
                  heap'[fl].content[i] # heap[fl].content[i] =>
                    StackNonEmpty(Cur) /\ top_callbacks(Cur).value = ContentSlot(fl, i) ]_vars
  /\ [][ (FinishStep /\ ~stopped /\ ~stopped') =>
           \A r \in 1..Len(Schema[FinishType].children) :
             Schema[FinishType].children[r].is_list =>
               LET fl == heap[FinishNode].fields[Schema[FinishType].children[r].field][2]
               IN \A i \in 1..Len(heap'[fl].content) : heap'[fl].content[i] # NULL ]_vars

\* a doc with two name children, "a" then "b", was returned
C13_Witness ==
  /\ pc = "done" /\ result.value = Ref(1) /\ pyerr = NoError
  /\ heap[2].type = "DocType"
  /\ heap[heap[2].fields[5][2]].content = <<Str(<<"a">>), Str(<<"b">>)>>

(***************************************************************************)
(* Vocabulary for tuple content: the step that starts a field of a row,    *)
(* the node holding the rows, the field's position (from 1) and the last   *)
(* row.                                                                    *)
(***************************************************************************)
TupleFieldStart ==
  /\ RecognizedStart
  /\ top_callbacks(Cur).cs_call.fn = "node_class_child_start"
  /\ ~IsChildName(top_callbacks(Cur), last'.name)
  /\ Schema[top_callbacks(Cur).cs_call.type].content_tuple

TupleNode == Deref(Cur, top_callbacks(Cur).value)[2]
TupleFields == ContentRefs(top_callbacks(Cur))
TupleField == CHOOSE c \in 1..Len(TupleFields) : TupleFields[c].name = last'.name
Rows(n) == heap[n].content
LastRowFields(n) == heap[Rows(n)[Len(Rows(n))][2]].fields
TupleItems == {o \in 1..Len(heap) : heap[o].cls = "tuple_item"}

\* C14: in tuple content, the start of a field other than the first when there is no
\* row or the last row's preceding field is unfilled, and the start of the first field
\* when the last row's final field is unfilled, stop the parse with an error naming
\* the attempted field and the field it must come after; no value changes and no
\* frame is pushed.
C14_TupleFieldOutOfOrder ==
  [][ (TupleFieldStart /\
        IF TupleField > 1
        THEN Rows(TupleNode) = <<>> \/ LastRowFields(TupleNode)[TupleField - 1] = NULL
        ELSE Rows(TupleNode) # <<>> /\ LastRowFields(TupleNode)[Len(TupleFields)] = NULL) =>
        /\ stopped'
        /\ pyerr' = ParseError(
             IF TupleField > 1
             THEN <<"can only come after", last'.name, TupleFields[TupleField - 1].name>>
             ELSE <<"can only come after or be the first in its group", last'.name,
                    TupleFields[Len(TupleFields)].name>>,
             "current")
        /\ heap' = heap
        /\ block' = block /\ block_used' = block_used /\ stackmem' = stackmem ]_vars

\* w was started in a row that has k but not v
C14_Witness ==
  /\ pc = "parsing" /\ stopped
  /\ last.ev = "start" /\ last.name = "w"
  /\ pyerr = ParseError(<<"can only come after", "w", "v">>, "current")
  /\ heap[2].type = "TabType" /\ Len(heap[2].content) = 1
  /\ heap[heap[2].content[1][2]].fields = <<Str(<<"a">>), NULL, NULL>>

\* C15 (as stated): the start of a field when that field or a later one of the last
\* row is already filled is rejected with an error (for the first field: when the
\* last row is incomplete), and a filled field of a row is changed only by the
\* element that is filling it, never by a later event.
C15_RowFieldsAscending ==
  /\ [][ (TupleFieldStart /\ Rows(TupleNode) # <<>> /\
           IF TupleField > 1
           THEN \E j \in TupleField..Len(TupleFields) : LastRowFields(TupleNode)[j] # NULL
           ELSE \E j \in 1..Len(TupleFields) : LastRowFields(TupleNode)[j] = NULL) =>
           /\ stopped' /\ pyerr'.cls = "ParseError"
           /\ heap' = heap ]_vars
  /\ [][ EventStep =>
           \A o \in TupleItems : \A f \in 1..Len(heap[o].fields) :
             (heap[o].fields[f] # NULL /\ heap'[o].fields[f] # heap[o].fields[f]) =>
               StackNonEmpty(Cur) /\ top_callbacks(Cur).value = FieldSlot(o, f) ]_vars

\* the first missing field of the last row of node n
FirstUnfilled(n) ==
  CHOOSE j \in 1..Len(LastRowFields(n)) :
    LastRowFields(n)[j] = NULL /\ \A q \in 1..(j - 1) : LastRowFields(n)[q] # NULL

\* C16: at the end event of an element with tuple content of more than one field
\* (whose required children are present), an unfilled field in the last row stops the
\* parse with an error naming the first missing field and the field before it; with
\* no row, or a complete last row, the finish succeeds.
C16_IncompleteLastRow ==
  [][ (FinishStep /\ ~stopped
         /\ Schema[FinishType].content_tuple /\ Len(Schema[FinishType].content) > 1
         /\ LackingChildren(FinishType, FinishNode) = {}) =>
        IF Rows(FinishNode) # <<>>
             /\ \E j \in 1..Len(LastRowFields(FinishNode)) : LastRowFields(FinishNode)[j] = NULL
        THEN /\ stopped'
             /\ pyerr' = ParseError(
                  <<"must come after",
                    Schema[FinishType].content[FirstUnfilled(FinishNode)].name,
                    Schema[FinishType].content[FirstUnfilled(FinishNode) - 1].name>>,
                  "current")
        ELSE ~stopped' /\ pyerr' = pyerr /\ heap' = heap ]_vars

\* a tab closed when its only row has k and v but not w
C16_Witness ==
  /\ pc = "parsing" /\ stopped
  /\ last.ev = "end" /\ last.called = "f_call"
  /\ pyerr = ParseError(<<"must come after", "w", "v">>, "current")
  /\ heap[2].type = "TabType" /\ Len(heap[2].content) = 1
  /\ heap[heap[2].content[1][2]].fields = <<Str(<<"a">>), Str(<<>>), NULL>>

\* C17 (as stated): a start event for a declared root element that reaches the root
\* frame when a root value already exists stops the parse, and the first root value
\* is not replaced.
C17_SecondRootIsHardError ==
  [][ (RecognizedStart /\ top_callbacks(Cur).cs_call.fn = "toplevel_start"
         /\ r_obj # NULL) =>
        /\ stopped'
        /\ r_obj' = r_obj ]_vars

\* C18: when the input ends and no start event has matched a declared root element,
\* parse returns no value and raises the error "document without a recognized root
\* element" with no line number.
C18_NoRootIsError ==
  [][ (pc = "parsing" /\ pc' = "done" /\ last'.ev = "end of input" /\ r_obj = NULL) =>
        /\ result'.value = NULL
        /\ pyerr' = ParseError(<<"document without a recognized root element">>, "none") ]_vars

\* the outermost element was unrecognized and ignored, with a nested element, and the
\* input ended
C18_Witness ==
  /\ pc = "done" /\ last.ev = "end of input"
  /\ nevents = 4 /\ r_obj = NULL /\ heap = <<>>
  /\ warnings = << <<"unexpected element", "x">> >>
  /\ result.value = NULL
  /\ pyerr = ParseError(<<"document without a recognized root element">>, "none")

\* C19: parse_str feeds the input as consecutive chunks that together are the input,
\* none longer than EXPAT_CHUNK_SIZE, with the is-final flag on the last feed call and
\* on no other, and it returns for every input length.
C19_ChunkedFeeding ==
  /\ [](pc \in {"str_loop", "str_done"} =>
          /\ \A i \in 1..Len(io.feeds) :
               /\ io.feeds[i].n >= 0 /\ io.feeds[i].n <= EXPAT_CHUNK_SIZE
               /\ io.feeds[i].off = IF i = 1 THEN 0
                                    ELSE io.feeds[i - 1].off + io.feeds[i - 1].n
               /\ io.feeds[i].final => i = Len(io.feeds) /\ pc = "str_done"
          /\ (pc = "str_done" /\ io.r = 0) =>
               /\ Len(io.feeds) > 0
               /\ io.feeds[Len(io.feeds)].final
               /\ io.feeds[Len(io.feeds)].off + io.feeds[Len(io.feeds)].n = io.data.len
          /\ (pc = "str_done" /\ io.r # 0) => pyerr # NoError)
  /\ <>(pc = "str_done")

\* an input of exactly two chunks was fed as two full chunks, the second one final
C19_Witness ==
  /\ pc = "str_done" /\ io.r = 0
  /\ io.data.len = 2 * EXPAT_CHUNK_SIZE
  /\ io.feeds = << [off |-> 0, n |-> EXPAT_CHUNK_SIZE, final |-> FALSE],
                   [off |-> EXPAT_CHUNK_SIZE, n |-> EXPAT_CHUNK_SIZE, final |-> TRUE] >>

\* C20: parse_file asks for at most EXPAT_BUFFER_SIZE bytes per read, feeds every chunk
\* read in read order, marks a feed final exactly when the read was empty, reads
\* nothing after an empty or failed read, does not feed a chunk longer than asked for
\* but fails, and returns once the source has returned an empty chunk.
C20_ReadFeedLoop ==
  /\ [](pc \in {"parse_file", "file_read", "file_feed", "file_done"} =>
          /\ \A i \in 1..Len(io.reads) : io.reads[i].req <= EXPAT_BUFFER_SIZE
          /\ Len(io.feeds) <= Len(io.reads) /\ Len(io.reads) <= Len(io.feeds) + 1
          /\ \A i \in 1..Len(io.feeds) :
               /\ io.feeds[i].off = i
               /\ io.reads[i].kind = "bytes"
               /\ io.reads[i].n <= EXPAT_BUFFER_SIZE
               /\ io.feeds[i].n = io.reads[i].n
               /\ io.feeds[i].final <=> io.reads[i].n = 0
          /\ \A i \in 1..(Len(io.reads) - 1) :
               io.reads[i].kind = "bytes" /\ io.reads[i].n > 0
          /\ (pc # "file_feed" /\ Len(io.reads) = Len(io.feeds) + 1) =>
               /\ pc = "file_done" /\ io.r = -1 /\ pyerr # NoError
               /\ \/ io.reads[Len(io.reads)].kind # "bytes"
                  \/ io.reads[Len(io.reads)].n > EXPAT_BUFFER_SIZE
          /\ (pc = "file_done" /\ io.r = 0) =>
               Len(io.feeds) > 0 /\ io.feeds[Len(io.feeds)].final)
  /\ <>(pc = "file_done")

\* after one full buffer was read and fed, the source returned more than asked for:
\* the parse failed with ValueError and the second chunk was not fed
C20_Witness ==
  /\ pc = "file_done" /\ io.r = -1
  /\ pyerr.cls = "ValueError"
  /\ Len(io.reads) = 2 /\ io.reads[2].n = EXPAT_BUFFER_SIZE + 1
  /\ io.feeds = << [off |-> 1, n |-> EXPAT_BUFFER_SIZE, final |-> FALSE] >>

\* the runs of character data that are split, and the ways to split a run into
\* consecutive non-empty pieces (cuts is the set of positions after which to cut)
TextRuns == UNION { [1..n -> {"a", " "}] : n \in 1..MaxRun }

RECURSIVE PiecesFrom(_, _, _)
PiecesFrom(run, cuts, from) ==
  IF from > Len(run) THEN <<>>
  ELSE LET to == IF \E c \in cuts : c >= from
                 THEN CHOOSE c \in cuts : c >= from /\ \A d \in cuts : d >= from => c <= d
                 ELSE Len(run)
       IN <<SubSeq(run, from, to)>> \o PiecesFrom(run, cuts, to + 1)

Splits(run) == { PiecesFrom(run, cuts, 1) : cuts \in SUBSET (1..(Len(run) - 1)) }

\* the tokenizer delivers the pieces one text event each, until a handler stops it
RECURSIVE DeliverPieces(_, _, _)
DeliverPieces(s, pieces, i) ==
  IF i > Len(pieces) \/ s.stopped THEN s
  ELSE DeliverPieces(character_data(s, pieces[i]), pieces, i + 1)

\* what a delivery leaves behind: the objects, the root, the exception, the warnings
Outcome(s) == <<s.heap, s.r_obj, s.pyerr, s.warnings, s.stopped, s.stackmem, s.block_used>>

TextFrameOnTop ==
  /\ pc = "parsing" /\ ~stopped /\ pending = "none" /\ ignore_level = 0
  /\ StackNonEmpty(Cur)
  /\ top_callbacks(Cur).t_call.fn \in {"node_string_text", "node_list_common_text"}

\* C21: wherever a string leaf or a list that allows text is the open element, a run of
\* character data delivered in any number of consecutive pieces leaves the same values
\* and the same error as the run delivered as one text event.
C21_SplitTextSameResult ==
  TextFrameOnTop =>
    \A run \in TextRuns : \A pieces \in Splits(run) :
      Outcome(DeliverPieces(Cur, pieces, 1)) = Outcome(character_data(Cur, run))

\* two consecutive text events reached the content list of a para, which holds the
\* two pieces as one string
C21_Witness ==
  /\ last.ev = "text" /\ last.called = "t_call"
  /\ \E n \in 1..Len(heap) :
       heap[n].type = "ParaType" /\ heap[n].content = <<Str(<<"a", " ">>)>>

\* the content lists that allow text
TextLists == { n \in 1..Len(heap) : heap[n].cls = "node" /\ Schema[heap[n].type].allow_text }

\* C22: in a content list that allows text no two adjacent entries are both plain
\* strings, and a text event that arrives while the last entry is a string is appended
\* to that entry instead of adding an entry.
C22_NoAdjacentStrings ==
  /\ [](\A n \in TextLists : \A i \in 1..(Len(heap[n].content) - 1) :
          ~(IsStr(heap[n].content[i]) /\ IsStr(heap[n].content[i + 1])))
  /\ [][(EventStep /\ last'.ev = "text" /\ last'.called = "t_call"
         /\ top_callbacks(Cur).t_call.fn = "node_list_common_text") =>
        LET n == Deref(Cur, top_callbacks(Cur).value)[2]
            size == Len(heap[n].content)
        IN \E str \in TextPieces :
             IF size > 0 /\ IsStr(heap[n].content[size])
             THEN heap'[n].content =
                    [heap[n].content EXCEPT ![size] = Str(heap[n].content[size][2] \o str)]
             ELSE heap'[n].content = Append(heap[n].content, Str(str))]_vars

\* text, an sp element and text again became one string entry
C22_Witness ==
  \E n \in TextLists : heap[n].content = <<Str(<<"a", "A", "a">>)>>

\* what the start handler does with the same event when warnings are not escalated
Unescalated == start_element([Cur EXCEPT !.escalate = FALSE], last'.name, last'.attrs)

EscalatedWarning(msg) == [cls |-> "ParseWarning", msg |-> msg, lineno |-> "current"]

\* C23: without escalation a step that stops the parser has raised a hard error, and a
\* step that only warned does not stop it; with escalation the first warning a start
\* tag would have given (unexpected element, unexpected attribute, duplicate
\* attribute) stops the parser with that warning as the exception, unexpected
\* character data does the same, and a parse that ends with a warning as its exception
\* returns no root value.
C23_WarningsAbortOnlyWhenEscalated ==
  /\ [][(EventStep /\ ~stopped /\ ~escalate) =>
          /\ stopped' => pyerr'.cls = "ParseError"
          /\ (warnings' # warnings /\ pyerr' = pyerr) => ~stopped']_vars
  /\ [][(EventStep /\ ~stopped /\ escalate /\ last'.ev = "start") =>
          /\ warnings' = <<>>
          /\ IF Len(Unescalated.warnings) > Len(warnings)
             THEN stopped' /\ pyerr' = EscalatedWarning(Unescalated.warnings[Len(warnings) + 1])
             ELSE stopped' = Unescalated.stopped /\ pyerr' = Unescalated.pyerr]_vars
  /\ [][(EventStep /\ ~stopped /\ escalate /\ last'.ev = "text" /\ ignore_level = 0
         /\ top_callbacks(Cur).t_call = NullCall) =>
          /\ stopped' <=> pyerr' = EscalatedWarning(<<"unexpected character data">>)
          /\ ~stopped' => pyerr' = pyerr /\ heap' = heap]_vars
  /\ [](pc = "done" /\ pyerr.cls = "ParseWarning" => result.value = NULL /\ stopped)

\* with escalation a duplicate attribute ended the parse: the exception is the warning
\* and no root value was returned although the root object had been created
C23_Witness ==
  /\ escalate /\ pc = "done" /\ result.value = NULL /\ r_obj # NULL
  /\ pyerr.cls = "ParseWarning" /\ pyerr.msg[1] = "duplicate attribute"

\* a well-formed integer token: white space, an optional sign, one digit or more, white
\* space; and the number it denotes
RECURSIVE Trimmed(_)
Trimmed(text) ==
  IF text = <<>> THEN text
  ELSE IF Head(text) \in Whitespace THEN Trimmed(Tail(text))
  ELSE IF text[Len(text)] \in Whitespace THEN Trimmed(SubSeq(text, 1, Len(text) - 1))
  ELSE text

Unsigned(text) ==
  IF text # <<>> /\ Head(text) \in {"+", "-"} THEN Tail(text) ELSE text

IsIntegerToken(text) ==
  /\ Unsigned(Trimmed(text)) # <<>>
  /\ \A i \in 1..Len(Unsigned(Trimmed(text))) : IsDigit(Unsigned(Trimmed(text))[i])

RECURSIVE Number(_)
Number(digits) ==
  IF digits = <<>> THEN 0
  ELSE 10 * Number(SubSeq(digits, 1, Len(digits) - 1)) + DigitValue(digits[Len(digits)])

TokenValue(text) ==
  IF Head(Trimmed(text)) = "-" THEN 0 - Number(Unsigned(Trimmed(text)))
  ELSE Number(Unsigned(Trimmed(text)))

\* C24 (as stated): the start of an element whose integer attribute is a well-formed
\* integer token stores that number in the attribute's field; with any other text the
\* start stops the parse with a hard error and no integer is stored.
C24_MalformedIntegerIsFatal ==
  [][ \A text \in IntTexts :
        (StartsClass("ParaType") /\ last'.attrs = << <<"n", text>> >>) =>
          IF IsIntegerToken(text)
          THEN ~stopped' /\ heap'[NewNode].fields[1] = <<"int", TokenValue(text)>>
          ELSE stopped' /\ pyerr'.cls = "ParseError" ]_vars

\* this step ran node_start_spType: sp started as an item of a para's content
StartsSp ==
  /\ RecognizedStart /\ last'.name = "sp"
  /\ top_callbacks(Cur).cs_call = Call("node_class_child_start", "ParaType")

ValueAttrs(attrs) == Occurrences(attrs, "value")

\* the code the "value" attributes give: the last one's number, 32 (a space) without any
CodeOf(attrs) ==
  IF ValueAttrs(attrs) = {} THEN 32
  ELSE TokenValue(attrs[CHOOSE i \in ValueAttrs(attrs) : \A j \in ValueAttrs(attrs) : j <= i][2])

\* C25 (as stated): when sp starts with "value" attributes that are integer tokens,
\* the start is a hard error if a code is outside 0..127, and otherwise emits the
\* character of the code and goes on; every attribute of another name gives an
\* "unexpected attribute" warning and has no other effect, whatever its text.
C25_OnlyValueDeterminesCharacter ==
  [][ (StartsSp /\ ~escalate
       /\ \A i \in ValueAttrs(last'.attrs) : IsIntegerToken(last'.attrs[i][2])) =>
        IF \E i \in ValueAttrs(last'.attrs) :
             TokenValue(last'.attrs[i][2]) < 0 \/ TokenValue(last'.attrs[i][2]) > 127
        THEN stopped' /\ pyerr'.cls = "ParseError"
        ELSE /\ ~stopped' /\ pyerr' = pyerr
             /\ heap'[Len(heap')].cls = "tagged_value"
             /\ heap'[Len(heap')].fields[2] = Str(<<Chr(CodeOf(last'.attrs))>>)
             /\ \A i \in 1..Len(last'.attrs) :
                  last'.attrs[i][1] # "value" =>
                    \E j \in 1..Len(NewWarnings) :
                      NewWarnings[j] = <<"unexpected attribute", last'.attrs[i][1]>> ]_vars

\* C26 (as stated): a lookup never fails: it returns the 'unknown' code or an index
\* below the count whose name is exactly the key, and it returns 'unknown' for every
\* key that is not in the name table, whatever the key's length.
C26_LookupNeverFails ==
  pc = "looked" =>
    /\ ~io.crashed
    /\ \/ io.ret = HASH_OTHER
       \/ io.ret \in 0..(HASH_COUNT - 1) /\ hash_names[io.ret + 1] = io.key
    /\ (\A i \in 1..HASH_COUNT : hash_names[i] # io.key) => io.ret = HASH_OTHER

\* the allocation of a frame block failed in the start event that was delivered last
AllocationFailed == "nomem" \in DOMAIN last /\ last.nomem

\* C27 (as stated): a start event in which the allocation of a new frame block fails
\* stops the parse with an out-of-memory error, and the parse then returns no root
\* value and that error, which is neither a validation nor a tokenizer diagnostic.
C27_AllocationFailureIsResourceError ==
  /\ [](AllocationFailed /\ pc # "crashed" => stopped /\ pyerr.cls = "MemoryError")
  /\ [](AllocationFailed /\ pc = "done" => result.value = NULL)

(***************************************************************************)
(* Explicit record construction.                                           *)
(***************************************************************************)
DupFieldError(name) == PyError("TypeError", <<"received more than one value for", name>>)
InvalidKeywordError(type, key) ==
  PyError("TypeError", <<func_name(type), "does not take the keyword argument", key>>)
MissingArgumentError(type, name) ==
  PyError("TypeError", <<func_name(type), "called with missing argument:", name>>)

\* the call has got past its positional arguments without returning
ArgsAccepted == pc = "tp_new" /\ (pc' = "kwds" \/ result'.value # NULL)

\* the positional arguments after the first start went to the first fields, in order
PositionalReceived(start) ==
  ArgsAccepted =>
    \A f \in 1..FIELD_COUNT(io.type) :
      f + start <= Len(io.args) => heap'[io'.n].fields[f] = io.args[f + start]

\* the keyword the loop is at, and the field of the type it names (0 if none)
KeywordTurn == pc = "kwds" /\ io.pos < Len(io.kwds)
TurnKey == io.kwds[io.pos + 1][1]
TurnField ==
  LET refs == fields(io.type)
  IN IF \E i \in 1..Len(refs) : refs[i].name = TurnKey
     THEN (CHOOSE i \in 1..Len(refs) : refs[i].name = TurnKey)
     ELSE 0
Rejected(err) == pc' = "returned" /\ result'.value = NULL /\ pyerr' = err

KeywordsChecked ==
  KeywordTurn =>
    /\ TurnField = 0 => Rejected(InvalidKeywordError(io.type, TurnKey))
    /\ TurnField # 0 /\ heap[io.n].fields[TurnField] # NULL => Rejected(DupFieldError(TurnKey))
    /\ TurnField # 0 /\ heap[io.n].fields[TurnField] = NULL /\ pyerr' = NoError =>
         /\ pc' = "kwds"
         /\ heap'[io.n].fields[TurnField] # NULL

NoObjectOnRejection == pyerr # NoError => pc = "returned" /\ result.value = NULL

FinalizationTurn == pc = "kwds" /\ io.pos = Len(io.kwds)
IsAttribute(type, i) == i <= Len(Schema[type].attrs)
\* the i-th field of the type must be given by the caller
RequiredField(type, i) ==
  IF IsAttribute(type, i) THEN ~fields(type)[i].optional
  ELSE ~fields(type)[i].is_list /\ fields(type)[i].min_items # 0
RepeatedField(type, i) == ~IsAttribute(type, i) /\ fields(type)[i].is_list
UnsetRequired ==
  {i \in 1..Len(fields(io.type)) :
     RequiredField(io.type, i) /\ heap[io.n].fields[fields(io.type)[i].field] = NULL}
FirstUnsetRequired == CHOOSE i \in UnsetRequired : \A j \in UnsetRequired : i <= j
IsEmptyList(h, v) ==
  IsRef(v) /\ h[v[2]].cls = "frozen_list" /\ h[v[2]].content = <<>>

\* C29: the finalization pass raises 'missing argument' naming the first still-unset
\* required field and no object is returned; otherwise the record is returned with
\* every field set: a field that had a value keeps it, an unset optional attribute
\* or optional singular child is None, and an unset repeated child is an empty list.
C29_FinalizationDefaultsOrRaises ==
  [][FinalizationTurn =>
       IF UnsetRequired # {}
       THEN Rejected(MissingArgumentError(io.type, fields(io.type)[FirstUnsetRequired].name))
       ELSE /\ pc' = "returned"
            /\ pyerr' = NoError
            /\ result'.value = Ref(io.n)
            /\ \A i \in 1..Len(fields(io.type)) :
                 LET f == fields(io.type)[i].field
                     before == heap[io.n].fields[f]
                     after == heap'[io.n].fields[f]
                 IN /\ after # NULL
                    /\ before # NULL => after = before
                    /\ before = NULL =>
                         IF RepeatedField(io.type, i) THEN IsEmptyList(heap', after)
                         ELSE after = Py_None]_vars

\* Node_SecType.__new__(id=..., name=...) has returned a record whose flag is None
\* and whose sec is an empty list
C29_Witness ==
  /\ pc = "returned"
  /\ io.type = "SecType"
  /\ io.args = <<>>
  /\ result.value # NULL
  /\ result.value = Ref(io.n)
  /\ heap[io.n].fields[1] = Py_None
  /\ heap[io.n].fields[2] # NULL
  /\ heap[io.n].fields[3] # NULL
  /\ IsEmptyList(heap, heap[io.n].fields[4])

\* Node_SecType.__new__() has returned NULL with the error naming id, the first of the
\* two required fields left unset
C29_WitnessMissing ==
  /\ pc = "returned"
  /\ io.type = "SecType"
  /\ io.args = <<>>
  /\ io.kwds = <<>>
  /\ pyerr = MissingArgumentError("SecType", "id")
  /\ result.value = NULL

(***************************************************************************)
(* Iteration over a frozen list.                                           *)
(***************************************************************************)
\* what the k-th call of next on a cursor over content returns
Expected(content, k) == IF k <= Len(content) THEN content[k] ELSE NULL

\* C30: every iteration request yields a new cursor that has returned nothing yet;
\* the calls of next on a cursor over a list of n elements return elements 0..n-1 in
\* index order and then exhaustion on every later call, whatever was done with the
\* other cursors in between; a call on one cursor leaves every other cursor as it
\* was; and no request and no call changes the list.
C30_FreshIndependentCursors ==
  /\ [](pc = "iterating" =>
          \A c \in Cursors :
            /\ heap[c].cls = "frozen_list_itr"
            /\ \A k \in 1..Len(io.got[c]) : io.got[c][k] = Expected(heap[1].content, k))
  /\ [][pc = "iterating" =>
          /\ heap'[1] = heap[1]
          /\ pc' = "iterating"
          /\ \A c \in Cursors :
               (last'.ev = "next" /\ last'.name = ToString(c)) \/
               (heap'[c] = heap[c] /\ io'.got[c] = io.got[c])
          /\ Len(heap') > Len(heap) =>
               /\ Len(heap') = Len(heap) + 1
               /\ io'.got[Len(heap')] = <<>>
               /\ heap'[Len(heap')].fields[ITR_I] = 0]_vars

\* two cursors over a list of three elements: the first has returned all three and
\* then exhaustion twice, the second, requested later, has returned the first only
C30_Witness ==
  /\ pc = "iterating"
  /\ Len(heap) >= 3
  /\ Len(heap[1].content) = 3
  /\ io.got[2] = <<Element(1), Element(2), Element(3), NULL, NULL>>
  /\ io.got[3] = <<Element(1)>>
  /\ last.ev = "next"
  /\ last.name = "3"

(***************************************************************************)
(* Rows of tuple content in every state of the parse.                      *)
(***************************************************************************)
TupleLists ==
  {n \in 1..Len(heap) : heap[n].cls = "node" /\ Schema[heap[n].type].content_tuple}
RowFields(n, r) == heap[Rows(n)[r][2]].fields
FilledPrefix(row) == \A i \in 2..Len(row) : row[i] # NULL => row[i - 1] # NULL
Complete(row) == \A i \in 1..Len(row) : row[i] # NULL
EarlierRowsComplete ==
  \A n \in TupleLists : \A r \in 1..(Len(Rows(n)) - 1) : Complete(RowFields(n, r))

\* C31 (as stated): in every state, the filled fields of every row of tuple content
\* form a prefix of the declared fields (no field is filled while the one before it
\* is unfilled), and every row but the last is complete.
C31_RowsFilledAsPrefix ==
  /\ \A n \in TupleLists : \A r \in 1..Len(Rows(n)) : FilledPrefix(RowFields(n, r))
  /\ EarlierRowsComplete

(***************************************************************************)
(* Destination slots inside a list's storage.                              *)
(***************************************************************************)
\* what a frame's destination slot holds; the slot of a leaf without value is null
Held(slot) == IF slot[1] = "nil" THEN NULL ELSE Deref(Cur, slot)

\* the frames on the stack whose destination slot is an element of list l's storage
FramesInto(l) ==
  {i \in 1..Depth(Cur) : FrameAt(i).value[1] = "content" /\ FrameAt(i).value[2] = l}

\* the frame on top of the stack belongs to the element that owns list l: l is the
\* content list of its node or the list in one of its node's fields
TopOwns(l) ==
  /\ Depth(Cur) > 0
  /\ LET v == Held(FrameAt(Depth(Cur)).value)
     IN /\ IsRef(v)
        /\ \/ v[2] = l
           \/ \E f \in 1..Len(heap[v[2]].fields) : heap[v[2]].fields[f] = Ref(l)

\* C32: a callback that grows the storage of a list finds no frame on the stack whose
\* destination slot lies in that storage, and a callback that pushes into a list
\* finds the frame of the list's owning element on top of the stack; so the
\* destination slot of every open frame stays where it is until the frame is popped.
C32_NoGrowthUnderOpenSlot ==
  [][EventStep =>
       \A l \in 1..Len(heap) :
         /\ heap'[l].capacity # heap[l].capacity => FramesInto(l) = {}
         /\ Len(heap'[l].content) > Len(heap[l].content) => TopOwns(l)]_vars

\* the sixth name of a doc is open: the list of names has grown from its initial
\* capacity to twice that, and the frame on top has its slot in the grown storage
C32_Witness ==
  /\ pc = "parsing"
  /\ Depth(Cur) = 3
  /\ \E l \in 1..Len(heap) :
       /\ heap[l].capacity = 2 * NODE_LIST_INITIAL_CAPACITY
       /\ Len(heap[l].content) = NODE_LIST_INITIAL_CAPACITY + 1
       /\ FrameAt(3).value = ContentSlot(l, NODE_LIST_INITIAL_CAPACITY + 1)
       /\ FramesInto(l) = {3}

(***************************************************************************)
(* Who writes what.  The record of a node is the node object, the lists    *)
(* its fields hold and the rows and tagged values of its content.          *)
(***************************************************************************)
Nodes == {o \in 1..Len(heap) : heap[o].cls = "node"}
RecordOf(o) ==
  {o} \cup {q \in 1..Len(heap) :
              \/ \E f \in 1..Len(heap[o].fields) :
                   heap[o].fields[f] = Ref(q) /\ heap[q].cls = "frozen_list"
              \/ \E c \in 1..Len(heap[o].content) :
                   heap[o].content[c] = Ref(q) /\ heap[q].cls \in {"tuple_item", "tagged_value"}}

\* the tokenizer has the element of node o open
NodeOpen(o) ==
  \E i \in 1..Len(open) : open[i].framed /\ Held(open[i].frame.value) = Ref(o)

\* the frame on top of the stack has object q as its own: q holds its reserved slot
\* or belongs to the record of its node
TopMayWrite(q) ==
  /\ Depth(Cur) > 0
  /\ LET top == FrameAt(Depth(Cur))
         v == Held(top.value)
     IN \/ top.value[1] \in {"fields", "content"} /\ top.value[2] = q
        \/ IsRef(v) /\ heap[v[2]].cls = "node" /\ q \in RecordOf(v[2])

\* C33: a callback changes nothing in the record of a node whose element has ended
\* (its fields, the lists in its fields, its content list and rows), and whatever
\* object a callback changes holds the reserved slot of the frame on top of the stack
\* or belongs to the record of that frame's node; the root slot changes only under
\* the root frame.
C33_FinishedValuesStay ==
  [][EventStep =>
       /\ \A o \in Nodes : ~NodeOpen(o) => \A q \in RecordOf(o) : heap'[q] = heap[q]
       /\ \A q \in 1..Len(heap) : heap'[q] # heap[q] => TopMayWrite(q)
       /\ r_obj' # r_obj => Depth(Cur) > 0 /\ FrameAt(Depth(Cur)).value = RootSlot]_vars

\* a sec inside a doc has ended and the doc has then taken the start of a name
C33_Witness ==
  /\ pc = "parsing" /\ ~stopped
  /\ last.ev = "start" /\ last.name = "name" /\ last.called = "cs_call"
  /\ Len(open) = 2 /\ open[2].framed
  /\ \E o \in Nodes : heap[o].type = "SecType" /\ ~NodeOpen(o)
  /\ \E o \in Nodes : heap[o].type = "DocType" /\ NodeOpen(o)

(***************************************************************************)
(* Ownership: the slots that hold a created object, and what the root      *)
(* destination slot reaches.                                               *)
(***************************************************************************)
Points(v, o) == IsRef(v) /\ v[2] = o
Holders(o) ==
  (IF Points(r_obj, o) THEN {RootSlot} ELSE {})
  \cup UNION {{FieldSlot(q, f) :
                f \in {f \in 1..Len(heap[q].fields) : Points(heap[q].fields[f], o)}} :
              q \in 1..Len(heap)}
  \cup UNION {{ContentSlot(q, c) :
                c \in {c \in 1..Len(heap[q].content) : Points(heap[q].content[c], o)}} :
              q \in 1..Len(heap)}
Children(o) ==
  {q \in 1..Len(heap) :
     \/ \E f \in 1..Len(heap[o].fields) : Points(heap[o].fields[f], q)
     \/ \E c \in 1..Len(heap[o].content) : Points(heap[o].content[c], q)}
RECURSIVE ReachedFrom(_)
ReachedFrom(S) ==
  LET more == S \cup UNION {Children(o) : o \in S}
  IN IF more = S THEN S ELSE ReachedFrom(more)
FromRoot == ReachedFrom({o \in 1..Len(heap) : Points(r_obj, o)})

\* C34 (as stated): at every point of a parse every object created so far is held by
\* exactly one slot and is reached from the root destination slot.
C34_EveryValueOwnedOnce ==
  pc = "parsing" =>
    \A o \in 1..Len(heap) : Cardinality(Holders(o)) = 1 /\ o \in FromRoot

(***************************************************************************)
(* Frame blocks: allocation, reuse and the freeing at the end of parse.    *)
(***************************************************************************)
FramePushed == pc' = "parsing" /\ Depth(Cur)' = Depth(Cur) + 1
FramePopped == pc' = "parsing" /\ Depth(Cur)' = Depth(Cur) - 1
BlockFull == block_used = STACK_BLOCK_SIZE
ParseEnds == pc = "parsing" /\ pc' = "done"
FreedOnce(freed, n) == \A b \in 1..n : Cardinality({i \in 1..Len(freed) : freed[i] = b}) = 1

\* C35: a block is allocated only by a push that finds the current block full and no
\* next block linked; a pop never frees a block; a push that finds the current block
\* full and a next block linked moves into that block without allocating; and when
\* parse ends, wherever the current block is in the chain, every allocated block is
\* passed to PyMem_Free exactly once and none stays allocated.
C35_BlocksAllocatedReusedFreed ==
  [][ /\ nblocks' > nblocks =>
           FramePushed /\ BlockFull /\ block = nblocks /\ nblocks' = nblocks + 1
      /\ FramePopped => nblocks' = nblocks
      /\ FramePushed /\ BlockFull /\ block < nblocks =>
           nblocks' = nblocks /\ block' = block + 1 /\ block_used' = 1
      /\ pc' = "parsing" => nblocks' >= nblocks
      /\ ParseEnds =>
           /\ FreedOnce(free_blocks(Cur), nblocks)
           /\ Len(free_blocks(Cur)) = nblocks
           /\ nblocks' = 0 ]_vars

\* parse has ended after the stack had grown into a second block, popped back into the
\* first and moved into the second again
C35_Witness ==
  /\ pc = "done"
  /\ nblocks = 0
  /\ Len(stackmem) = 2
  /\ block = 2
  /\ nevents = STACK_BLOCK_SIZE - 1 + 3
  /\ Len(open) = STACK_BLOCK_SIZE

(***************************************************************************)
(* The protocol of one element: start, children and text, finish.          *)
(***************************************************************************)
\* the innermost open element of the tokenizer, before the callback
Innermost == open[Len(open)]
OwnsTop(e) == e.framed /\ StackNonEmpty(Cur) /\ e.frame = top_callbacks(Cur)
HandlerRan(which) == nevents' = nevents + 1 /\ last'.called = which

\* a frame of a record element is on the stack only with every required attribute set
FramedAfterAttributes ==
  \A i \in 1..Depth(Cur) :
    LET v == Held(FrameAt(i).value)
    IN IsRef(v) /\ heap[v[2]].cls = "node" =>
         \A a \in 1..Len(Schema[heap[v[2]].type].attrs) :
           ~Schema[heap[v[2]].type].attrs[a].optional =>
             heap[v[2]].fields[Schema[heap[v[2]].type].attrs[a].field] # NULL

\* C36: a record element's frame is pushed only after its attributes have been
\* processed and its required attributes found; a child or text event inside an
\* element reaches a handler only of the frame that element pushed, which is then on
\* top; a finish handler runs only in an end event, for the element that end event
\* closes, and that event pops the frame.
C36_ElementProtocolOrdered ==
  /\ [](pc = "parsing" => FramedAfterAttributes)
  /\ [][ /\ HandlerRan("cs_call") /\ Len(open) > 0 => OwnsTop(Innermost)
         /\ HandlerRan("t_call") => OwnsTop(Innermost)
         /\ HandlerRan("f_call") =>
              /\ last'.ev = "end"
              /\ OwnsTop(Innermost)
              /\ pc' = "parsing" => Depth(Cur)' = Depth(Cur) - 1 ]_vars

(***************************************************************************)
(* The root frame under the callbacks.                                     *)
(***************************************************************************)
CallbackRuns == pc = "parsing" /\ nevents' = nevents + 1

\* C37: whenever start_element, end_element or character_data runs, the frame stack
\* is not empty, and while the stack is empty during a parse the tokenizer has no
\* callback left to deliver: the parser is stopped and owes nothing.
C37_StackNonEmptyAtCallbacks ==
  /\ [][CallbackRuns => StackNonEmpty(Cur)]_vars
  /\ [](pc = "parsing" /\ ~StackNonEmpty(Cur) => stopped /\ pending = "none")

\* the end callback of an empty root element whose start handler had stopped the
\* parser has run and has popped the root frame
C37_Witness ==
  /\ pc = "parsing"
  /\ stopped
  /\ last.ev = "end"
  /\ nevents = 2
  /\ ~StackNonEmpty(Cur)

(***************************************************************************)
(* The completeness check of the last row.                                 *)
(***************************************************************************)
\* the end callback about to run calls frozen_list_check_complete_tuple on list fl
ChecksRowsOf(fl) ==
  /\ StackNonEmpty(Cur)
  /\ ignore_level = 0
  /\ top_callbacks(Cur).f_call.fn = "node_class_finish"
  /\ Schema[top_callbacks(Cur).f_call.type].content_tuple
  /\ Len(Schema[top_callbacks(Cur).f_call.type].content) > 1
  /\ Held(top_callbacks(Cur).value) = Ref(fl)

\* C38: whenever frozen_list_check_complete_tuple runs on a non-empty content list,
\* field 0 of the last row is filled, so the backward scan stops at an index >= 1.
C38_LastRowHasFirstField ==
  [][ \A fl \in 1..Len(heap) :
        (CallbackRuns /\ last'.ev = "end" /\ ChecksRowsOf(fl) /\ Len(heap[fl].content) > 0) =>
          /\ heap[LastRow(Cur, fl)].fields[1] # NULL
          /\ last_filled(Cur, LastRow(Cur, fl), Len(heap[LastRow(Cur, fl)].fields)) >= 1 ]_vars

(***************************************************************************)
(* The message of an error raised through set_parse_error.                 *)
(***************************************************************************)
\* the last callback was a start tag with the one integer attribute n or value, and
\* its handler stopped the parser with a ParseError
IntegerAttributeRejected ==
  /\ pc = "parsing"
  /\ stopped
  /\ last.ev = "start"
  /\ last.called = "cs_call"
  /\ Len(last.attrs) = 1
  /\ last.attrs[1][1] = (IF last.name = "para" THEN "n" ELSE "value")
  /\ pyerr.cls = "ParseError"

\* the message the rejecting caller passes to set_parse_error: node_start_spType for a
\* number outside 0..127, parse_integer for text that is not a number
CallersMessage ==
  IF last.name = "sp" /\ last.attrs[1][2] \in {<<"2", "0", "0">>, <<"-", "1">>}
  THEN <<"\"value\" must be between 0 and 127">>
  ELSE <<"cannot parse integer">>

\* C39: a ParseError raised through set_parse_error carries the message its caller
\* passed, with the current line number.
C39_ParseErrorCarriesCallersMessage ==
  IntegerAttributeRejected => pyerr = ParseError(CallersMessage, "current")

(***************************************************************************)
(* The indices the hashed lookup reads g at.                               *)
(***************************************************************************)
InG(i) == i >= 0 /\ i < g_length
F1Index == CRem(HashSum(salt1, io.key, io.signed_char, 1), g_length)
F2Index == CRem(HashSum(salt2, io.key, io.signed_char, 1), g_length)

\* C40: for every key, bytes above 127 and keys longer than the salt included,
\* f1 % g_length and f2 % g_length lie in [0, g_length) and so does the combined index,
\* so that every access to g in element_lookup is in bounds.
C40_HashIndicesInBounds ==
  pc = "looked" /\ io.fn = "element_lookup" =>
    /\ InG(F1Index)
    /\ InG(F2Index)
    /\ \A v1 \in ReadG(F1Index), v2 \in ReadG(F2Index) : InG(CRem(v1 + v2, g_length))
====
